---- MODULE Spec2Model ----
(***************************************************************************)
(* CronChat backend: the message pipeline (CreateMessage and the stored    *)
(* procedure sp_send_message_with_day_sep), the receipt tracker            *)
(* (message_receipts, the seen cursor of room_members) and the reaction    *)
(* ledger (message_reactions), modelled over the MySQL store they share,   *)
(* and the websocket registry with its dispatcher (wsByUser, wsSendToUser).*)
(*                                                                         *)
(* An optional value (a nil pointer, a NULL column) is the empty sequence; *)
(* a present value v is <<v>>.                                             *)
(***************************************************************************)
EXTENDS Integers, FiniteSets, Sequences, TLC

VARIABLES
    clock,              \* wall clock, read by time.Now() and NOW()
    messages,           \* committed rows of table messages
    nextId,             \* AUTO_INCREMENT counter of messages
    cm,                 \* per request: position and transaction of handleSendMessage
    room_members,       \* rows of table room_members, keyed by <<room_id, user_id>>
    message_receipts,   \* rows of table message_receipts, keyed by <<message_id, user_id>>
    rd,                 \* per request: position of a handler that writes last_seen_at
    seenMark,           \* per <<room, user>>: <<upTo, NOW()>> of the last POST /rooms/seen
                        \* answered since the room's last message was committed
    lastWrite,          \* the last statement that wrote message_receipts, with its NOW()
    message_reactions,  \* rows of table message_reactions per <<message_id, user_id, reaction>>
    tg,                 \* per request: position of handleToggleReaction
    wsByUser,           \* registry: per user the set of registered connections
    wsClient,           \* per connection: conn, sendCh and its writer and reader goroutines
    ds,                 \* per dispatch goroutine: position of wsSendToUsers / wsSendToUser
    rq,                 \* per request: response and fan-out position of handleSendMessage
    served,             \* the kinds of reaction and mark-seen requests answered so far,
                        \* each with whether its handler started a broadcast
    rooms,              \* rows of table rooms
    nextRoomId,         \* AUTO_INCREMENT counter of rooms
    cd,                 \* per request: position of handleCreateDirectRoom
    pg                  \* a client paging backwards through a room: its limit and the
                        \* pages (message ids, in the order returned) it has received

msgVars == <<messages, nextId, cm>>
seenVars == <<room_members, message_receipts, rd, seenMark, lastWrite>>
reactVars == <<message_reactions, tg>>
wsVars == <<wsByUser, wsClient, ds, rq, served>>
roomVars == <<rooms, nextRoomId, cd, pg>>
vars == <<clock, messages, nextId, cm, room_members, message_receipts, rd, seenMark,
          lastWrite, message_reactions, tg, wsByUser, wsClient, ds, rq, served,
          rooms, nextRoomId, cd, pg>>

----------------------------------------------------------------------------
(* Bounds *)

MaxClock == 2        \* the clock runs over 1..MaxClock
DayLen == 2          \* clock ticks per calendar day
MaxId == 4           \* message ids handed out
NumSenders == 2      \* concurrent send-message requests
NumReaders == 2      \* concurrent requests writing last_seen_at
NumTogglers == 2     \* concurrent toggle-reaction requests
MaxConns == 2        \* websocket connections ever opened
QueueCap == 1        \* capacity of a connection's sendCh
NumDispatchers == 2  \* concurrent dispatch goroutines
MaxEnv == 1          \* envelopes each dispatch goroutine sends
NumCreators == 2     \* concurrent create-direct-room requests
MaxRoomId == 4       \* room ids handed out

Users == {1, 2}
Rooms == {1, 2}
Procs == 1..NumSenders
Readers == 1..NumReaders
Togglers == 1..NumTogglers
Creators == 1..NumCreators
Labels == {"like", "love"}

(* Program constants *)

SystemSenderID == 99999

MessageTypes == {"text", "image", "file", "system"}

Max2(a, b) == IF a >= b THEN a ELSE b

SetMax(S) == CHOOSE x \in S : \A y \in S : y <= x

(* COALESCE(v, d) on an optional value *)
Coalesce(v, d) == IF v = <<>> THEN d ELSE v[1]

----------------------------------------------------------------------------
(* Calendar: DATE(t), TIMESTAMP(day), and the separator's label *)

DateOf(t) == t \div DayLen

DayStart(d) == d * DayLen

DayLabel(d) == "--- " \o ToString(d) \o " ---"

----------------------------------------------------------------------------
(* Membership *)

IsUserInRoom(roomID, userID) == <<roomID, userID>> \in DOMAIN room_members

(* DELETE FROM room_members WHERE room_id = ? AND user_id = ? *)
DeleteMember(table, roomID, userID) ==
    [k \in DOMAIN table \ {<<roomID, userID>>} |-> table[k]]

(* room.Repository.GetRoomOwner: the member with member_role = 'owner',    *)
(* none when the query finds no row. User 1 owns every room.               *)
GetRoomOwner(roomID) == IF IsUserInRoom(roomID, 1) THEN <<1>> ELSE <<>>

(* room.Repository.DeleteUserGroup: DELETE FROM room_members WHERE         *)
(* room_id = ? AND user_id = ?, one autocommitted statement.               *)
DeleteUserGroup(roomID, userID) ==
    /\ room_members' = DeleteMember(room_members, roomID, userID)
    /\ UNCHANGED <<roomVars, clock, msgVars, message_receipts, rd, seenMark, lastWrite, reactVars, wsVars>>

----------------------------------------------------------------------------
(* Direct rooms: handleCreateDirectRoom *)

IdleCreate == [pc |-> "idle", currentUserID |-> 0, targetID |-> 0, roomID |-> 0,
               status |-> 0]

(* room.Repository.GetDirectRoomBetweenUsers: the ids of the rooms of type *)
(* direct with a member row of a and a member row of b; LIMIT 1 returns    *)
(* one of them, sql.ErrNoRows when the set is empty.                       *)
GetDirectRoomBetweenUsers(a, b) ==
    {r.id : r \in {x \in rooms : /\ x.type = "direct"
                                 /\ IsUserInRoom(x.id, a)
                                 /\ IsUserInRoom(x.id, b)}}

(* room.Repository.AddMember: INSERT INTO room_members *)
AddMember(table, roomID, userID) ==
    [k \in DOMAIN table \cup {<<roomID, userID>>} |->
        IF k \in DOMAIN table THEN table[k]
        ELSE [last_seen_message_id |-> <<>>, last_seen_at |-> <<>>]]

(* handleCreateDirectRoom up to the lookup: an existing room is returned   *)
(* with status 200, otherwise the handler goes on to create one.           *)
handleCreateDirectRoom(p, currentUserID, targetID) ==
    /\ cd[p].pc = "idle"
    /\ targetID > 0 /\ targetID # currentUserID
    /\ LET existing == GetDirectRoomBetweenUsers(currentUserID, targetID)
       IN  IF existing # {}
           THEN \E id \in existing :
                  cd' = [cd EXCEPT ![p] = [IdleCreate EXCEPT !.currentUserID = currentUserID,
                                              !.targetID = targetID, !.roomID = id,
                                              !.status = 200]]
           ELSE cd' = [cd EXCEPT ![p] = [IdleCreate EXCEPT !.pc = "create",
                                            !.currentUserID = currentUserID,
                                            !.targetID = targetID]]
    /\ UNCHANGED <<rooms, nextRoomId, pg, clock, msgVars, seenVars, reactVars, wsVars>>

(* room.Repository.CreateRoom: INSERT INTO rooms, LastInsertId *)
CreateRoom(p) ==
    /\ cd[p].pc = "create"
    /\ nextRoomId <= MaxRoomId
    /\ rooms' = rooms \cup {[id |-> nextRoomId, type |-> "direct",
                              created_by |-> cd[p].currentUserID]}
    /\ nextRoomId' = nextRoomId + 1
    /\ cd' = [cd EXCEPT ![p].pc = "member1", ![p].roomID = nextRoomId]
    /\ UNCHANGED <<pg, clock, msgVars, seenVars, reactVars, wsVars>>

(* AddMember(roomID, currentUserID, "member") *)
AddMemberCurrent(p) ==
    /\ cd[p].pc = "member1"
    /\ room_members' = AddMember(room_members, cd[p].roomID, cd[p].currentUserID)
    /\ cd' = [cd EXCEPT ![p].pc = "member2"]
    /\ UNCHANGED <<rooms, nextRoomId, pg, clock, msgVars, message_receipts, rd, seenMark,
                   lastWrite, reactVars, wsVars>>

(* AddMember(roomID, targetID, "member"), GetRoomByID and the response 201 *)
AddMemberTarget(p) ==
    /\ cd[p].pc = "member2"
    /\ room_members' = AddMember(room_members, cd[p].roomID, cd[p].targetID)
    /\ cd' = [cd EXCEPT ![p].pc = "idle", ![p].status = 201]
    /\ UNCHANGED <<rooms, nextRoomId, pg, clock, msgVars, message_receipts, rd, seenMark,
                   lastWrite, reactVars, wsVars>>

----------------------------------------------------------------------------
(* Message pipeline *)

NoMsg == [room_id |-> 0, sender_id |-> 0, message_type |-> "text",
          reply_to |-> <<>>, created_at |-> 0]

IdleCall == [pc |-> "idle", msg |-> NoMsg, tx |-> {}, result |-> "none", id |-> 0]

(* The rows a statement of transaction p reads: committed rows and its own. *)
Visible(p) == messages \cup cm[p].tx

(* fetchReplyInfo: the reply target, looked up by id within the room. *)
fetchReplyInfoAnyRoom(roomID, replyToID) ==
    \E m \in messages : m.id = replyToID

fetchReplyInfo(roomID, replyToID) ==
    \E m \in messages : m.id = replyToID /\ m.room_id = roomID

(* CreateMessage validates the reply target only when the id is positive. *)
ValidatesReply(replyTo) == replyTo # <<>> /\ replyTo[1] > 0

(* The procedure's NOT EXISTS test: a day separator of (room, day). *)
IsDaySeparator(m, roomID, day) ==
    /\ m.room_id = roomID
    /\ m.sender_id = SystemSenderID
    /\ m.message_type = "system"
    /\ m.content = DayLabel(day)
    /\ DateOf(m.created_at) = day

DaySepExistsNever(rows, roomID, day) == FALSE

DaySepExists(rows, roomID, day) ==
    \E m \in rows : IsDaySeparator(m, roomID, day)

DaySeparatorRow(id, roomID, day) ==
    [id |-> id, room_id |-> roomID, sender_id |-> SystemSenderID,
     content |-> DayLabel(day), message_type |-> "system",
     reply_to |-> <<>>, created_at |-> DayStart(day)]

MessageRow(id, msg) ==
    [id |-> id, room_id |-> msg.room_id, sender_id |-> msg.sender_id,
     content |-> "hi", message_type |-> msg.message_type,
     reply_to |-> msg.reply_to, created_at |-> msg.created_at]

(* fk_messages_reply_to: a non-NULL reply_to_message_id references a row. *)
ReplyForeignKeyOk(p, replyTo) ==
    replyTo = <<>> \/ \E m \in Visible(p) : m.id = replyTo[1]

(* handleSendMessage up to BeginTx: the membership check, the model built  *)
(* with now = time.Now(), and CreateMessage's reply validation.            *)
HandleSendMessage(p, roomID, userID, msgType, replyTo) ==
    /\ cm[p].pc = "idle"
    /\ IsUserInRoom(roomID, userID)
    /\ LET msg == [room_id |-> roomID, sender_id |-> userID, message_type |-> msgType,
                   reply_to |-> replyTo, created_at |-> clock]
       IN  IF ValidatesReply(replyTo) /\ ~fetchReplyInfo(roomID, replyTo[1])
           THEN cm' = [cm EXCEPT ![p] = [pc |-> "idle", msg |-> msg, tx |-> {},
                                         result |-> "InvalidReplyTarget", id |-> 0]]
           ELSE cm' = [cm EXCEPT ![p] = [pc |-> "sep", msg |-> msg, tx |-> {},
                                         result |-> "none", id |-> 0]]
    /\ rq' = [rq EXCEPT ![p] = [pc |-> "idle", status |-> 0, id |-> 0,
                                ctx |-> "live", started |-> {}]]
    /\ UNCHANGED <<roomVars, clock, messages, nextId, seenVars, reactVars, wsByUser, wsClient, ds, served>>

(* LAST_INSERT_ID() of the transaction's connection: the id generated by   *)
(* its most recent INSERT, also by one inside the procedure.               *)
LastInsertIdOfFirst(last, id) == IF last = 0 THEN id ELSE last

LastInsertId(last, id) == id

(* sp_send_message_with_day_sep, step 1: check, then insert the separator. *)
SpDaySeparator(p) ==
    /\ cm[p].pc = "sep"
    /\ LET msg == cm[p].msg
           day == DateOf(msg.created_at)
       IN  IF msg.message_type # "system" /\ ~DaySepExists(Visible(p), msg.room_id, day)
           THEN /\ nextId <= MaxId
                /\ cm' = [cm EXCEPT ![p].pc = "ins",
                                    ![p].tx = @ \cup {DaySeparatorRow(nextId, msg.room_id, day)},
                                    ![p].id = LastInsertId(@, nextId)]
                /\ nextId' = nextId + 1
           ELSE /\ cm' = [cm EXCEPT ![p].pc = "ins"]
                /\ nextId' = nextId
    /\ UNCHANGED <<roomVars, clock, messages, seenVars, reactVars, wsVars>>

(* sp_send_message_with_day_sep, step 2: insert the real message; a        *)
(* foreign-key failure is returned by ExecContext and the deferred         *)
(* Rollback discards the transaction.                                      *)
SpInsertMessage(p) ==
    /\ cm[p].pc = "ins"
    /\ IF ReplyForeignKeyOk(p, cm[p].msg.reply_to)
       THEN /\ nextId <= MaxId
            /\ cm' = [cm EXCEPT ![p].pc = "commit",
                                ![p].tx = @ \cup {MessageRow(nextId, cm[p].msg)},
                                ![p].id = LastInsertId(@, nextId)]
            /\ nextId' = nextId + 1
       ELSE /\ cm' = [cm EXCEPT ![p].pc = "idle", ![p].tx = {}, ![p].id = 0,
                                ![p].result = "StorageError"]
            /\ nextId' = nextId
    /\ UNCHANGED <<roomVars, clock, messages, seenVars, reactVars, wsVars>>

(* SELECT LAST_INSERT_ID() and tx.Commit(): the rows become visible. *)
CommitMessage(p) ==
    /\ cm[p].pc = "commit"
    /\ messages' = messages \cup cm[p].tx
    /\ cm' = [cm EXCEPT ![p].pc = "idle", ![p].tx = {}, ![p].result = "ok"]
    /\ seenMark' = [k \in DOMAIN seenMark |->
                      IF k[1] = cm[p].msg.room_id THEN <<>> ELSE seenMark[k]]
    /\ UNCHANGED <<roomVars, clock, nextId, room_members, message_receipts, rd, lastWrite, reactVars, wsVars>>

(* The rows of a transaction that remain after tx.Rollback() *)
RollbackKeepsSeparator(tx) == {m \in tx : m.message_type = "system"}

Rollback(tx) == {}

(* CreateMessage returns an error from ExecContext (the CALL), from the    *)
(* scan of LAST_INSERT_ID() or from Commit; the deferred tx.Rollback()     *)
(* discards what the procedure inserted.                                   *)
AbortMessage(p) ==
    /\ cm[p].pc \in {"sep", "ins", "commit"}
    /\ messages' = messages \cup Rollback(cm[p].tx)
    /\ cm' = [cm EXCEPT ![p].pc = "idle", ![p].tx = {}, ![p].id = 0,
                        ![p].result = "StorageError"]
    /\ UNCHANGED <<roomVars, clock, nextId, seenVars, reactVars, wsVars>>

Tick ==
    /\ clock < MaxClock
    /\ clock' = clock + 1
    /\ UNCHANGED <<roomVars, msgVars, seenVars, reactVars, wsVars>>

----------------------------------------------------------------------------
(* Receipt tracker: message_receipts *)

ReceiptKeys(receipts) == DOMAIN receipts

(* ON DUPLICATE KEY UPDATE of SetSeen and MarkRoomSeenUpTo:                *)
(* status = 'seen', seen_at = GREATEST(seen_at, VALUES(seen_at)).          *)
UpsertSeenOverwrite(row, ts) == [row EXCEPT !.status = "seen", !.seen_at = ts]

UpsertSeen(row, ts) ==
    [row EXCEPT !.status = "seen", !.seen_at = Max2(row.seen_at, ts)]

(* ON DUPLICATE KEY UPDATE of SetDelivered; the assignments run left to    *)
(* right, so seen_at's IF reads the status just assigned.                  *)
UpsertDeliveredDowngrade(row, ts) ==
    [row EXCEPT !.status = "delivered", !.seen_at = Max2(row.seen_at, ts)]

UpsertDelivered(row, ts) ==
    LET status == IF row.status = "seen" THEN "seen" ELSE "delivered"
    IN  [row EXCEPT !.status = status,
                    !.seen_at = IF status = "seen" THEN row.seen_at
                                ELSE Max2(row.seen_at, ts)]

(* The foreign keys of message_receipts: room, message and user exist. *)
ReceiptForeignKeysOk(roomID, messageID, userID) ==
    /\ roomID \in Rooms
    /\ userID \in Users
    /\ \E m \in messages : m.id = messageID

PutReceipt(receipts, key, row) ==
    [k \in ReceiptKeys(receipts) \cup {key} |-> IF k = key THEN row ELSE receipts[k]]

(* SetDelivered: INSERT ... 'delivered', NOW() ON DUPLICATE KEY UPDATE *)
SetDelivered(roomID, messageID, userID, now) ==
    /\ roomID > 0 /\ messageID > 0 /\ userID > 0
    /\ ReceiptForeignKeysOk(roomID, messageID, userID)
    /\ LET key == <<messageID, userID>>
       IN  message_receipts' =
             IF key \in ReceiptKeys(message_receipts)
             THEN PutReceipt(message_receipts, key, UpsertDelivered(message_receipts[key], now))
             ELSE PutReceipt(message_receipts, key,
                             [room_id |-> roomID, status |-> "delivered", seen_at |-> now])
    /\ lastWrite' = <<[op |-> "SetDelivered", room_id |-> roomID, message_id |-> messageID,
                       user_id |-> userID, now |-> now]>>
    /\ UNCHANGED <<roomVars, clock, msgVars, room_members, rd, seenMark, reactVars, wsVars>>

(* SetSeen: INSERT ... 'seen', NOW() ON DUPLICATE KEY UPDATE *)
SetSeen(roomID, messageID, userID, now) ==
    /\ roomID > 0 /\ messageID > 0 /\ userID > 0
    /\ ReceiptForeignKeysOk(roomID, messageID, userID)
    /\ LET key == <<messageID, userID>>
       IN  message_receipts' =
             IF key \in ReceiptKeys(message_receipts)
             THEN PutReceipt(message_receipts, key, UpsertSeen(message_receipts[key], now))
             ELSE PutReceipt(message_receipts, key,
                             [room_id |-> roomID, status |-> "seen", seen_at |-> now])
    /\ lastWrite' = <<[op |-> "SetSeen", room_id |-> roomID, message_id |-> messageID,
                       user_id |-> userID, now |-> now]>>
    /\ UNCHANGED <<roomVars, clock, msgVars, room_members, rd, seenMark, reactVars, wsVars>>

(* The rows MarkRoomSeenUpTo's INSERT ... SELECT selects. *)
SeenTargets(roomID, userID, upToMessageID) ==
    {m \in messages : m.room_id = roomID /\ m.id <= upToMessageID /\ m.sender_id # userID}

(* chat.Repository.MarkRoomSeenUpTo: the table after the bulk upsert. *)
MarkRoomSeenUpTo(receipts, roomID, userID, upToMessageID, now) ==
    LET keys == {<<m.id, userID>> : m \in SeenTargets(roomID, userID, upToMessageID)}
    IN  [k \in ReceiptKeys(receipts) \cup keys |->
           IF k \in keys
           THEN IF k \in ReceiptKeys(receipts)
                THEN UpsertSeen(receipts[k], now)
                ELSE [room_id |-> roomID, status |-> "seen", seen_at |-> now]
           ELSE receipts[k]]

SeenReceiptKeys(receipts, roomID, userID) ==
    {k \in ReceiptKeys(receipts) :
        /\ k[2] = userID
        /\ receipts[k].room_id = roomID
        /\ receipts[k].status = "seen"}

(* GetRoomLastSeenMessageID: MAX(message_id), MAX(seen_at) over the seen   *)
(* receipts of (room, user); no receipt gives the zero result.             *)
GetRoomLastSeenMessageID(receipts, roomID, userID) ==
    LET keys == SeenReceiptKeys(receipts, roomID, userID)
    IN  IF keys = {} THEN <<0, <<>>>>
        ELSE <<SetMax({k[1] : k \in keys}), <<SetMax({receipts[k].seen_at : k \in keys})>>>>

(* GetUnreadCount: non-system messages of others created after last_seen_at *)
GetUnreadCount(members, roomID, userID) ==
    LET seenAt == Coalesce(members[<<roomID, userID>>].last_seen_at, 0)
    IN  Cardinality({m \in messages :
                        /\ m.room_id = roomID
                        /\ m.message_type # "system"
                        /\ m.sender_id # userID
                        /\ m.created_at > seenAt})

(* GetUnreadCountsByRooms: room_members LEFT JOIN messages; a membership   *)
(* without a matching message yields one row whose m.id is NULL.           *)
UnreadJoin(members, userID) ==
    LET mine == {k \in DOMAIN members : k[2] = userID}
        matches(k) == {m \in messages :
                         /\ m.room_id = k[1]
                         /\ m.message_type # "system"
                         /\ m.sender_id # k[2]
                         /\ m.created_at > Coalesce(members[k].last_seen_at, 0)}
    IN  UNION {IF matches(k) = {}
               THEN {<<k[1], <<>>>>}
               ELSE {<<k[1], <<m.id>>>> : m \in matches(k)} : k \in mine}

(* The HAVING clause of the grouped rows *)
HavingAny(cnt) == TRUE

Having(cnt) == cnt > 0

(* GROUP BY rm.room_id, COUNT(m.id), HAVING COUNT(m.id) > 0, as the map    *)
(* the function returns.                                                   *)
GetUnreadCountsByRooms(members, userID) ==
    LET rows == UnreadJoin(members, userID)
        count(r) == Cardinality({j \in rows : j[1] = r /\ j[2] # <<>>})
    IN  [r \in {g \in {j[1] : j \in rows} : Having(count(g))} |-> count(r)]

(* GetRoomsByUser: the messages its unread_count subquery counts for one   *)
(* room of the user (is_temp = 0, other sender, never seen or created      *)
(* after last_seen_at); the column is the number of these rows.            *)
RoomListUnread(members, roomID, userID) ==
    {m \in messages :
        /\ m.room_id = roomID
        /\ m.sender_id # userID
        /\ \/ members[<<roomID, userID>>].last_seen_at = <<>>
           \/ m.created_at > members[<<roomID, userID>>].last_seen_at[1]}

(* handleMarkRoomSeenUpTo: POST /rooms/seen. now is the statement's NOW(). *)
HandleMarkRoomSeenUpTo(userID, roomID, upToMessageID, now) ==
    /\ roomID > 0 /\ upToMessageID > 0
    /\ IsUserInRoom(roomID, userID)
    /\ message_receipts' = MarkRoomSeenUpTo(message_receipts, roomID, userID, upToMessageID, now)
    /\ seenMark' = [seenMark EXCEPT ![<<roomID, userID>>] = <<upToMessageID, now>>]
    /\ lastWrite' = <<[op |-> "MarkRoomSeenUpTo", room_id |-> roomID, message_id |-> upToMessageID,
                       user_id |-> userID, now |-> now]>>
    /\ UNCHANGED <<roomVars, clock, msgVars, room_members, rd, reactVars, wsVars>>

----------------------------------------------------------------------------
(* The seen cursor of room_members, written by the room repository *)

IdleReader == [pc |-> "idle", room_id |-> 0, user_id |-> 0, k |-> 0, t |-> 0]

(* GetRoomMessages without a cursor: the newest limit rows of the room in  *)
(* the order (created_at, id).                                             *)
Later(a, b) == a.created_at > b.created_at \/ (a.created_at = b.created_at /\ a.id > b.id)

FirstPage(roomID, limit) ==
    LET rows == {m \in messages : m.room_id = roomID}
    IN  {m \in rows : Cardinality({x \in rows : Later(x, m)}) < limit}

NewestID(page) == IF page = {} THEN 0 ELSE SetMax({m.id : m \in page})

(* handleGetRoomMessages, first page: newestID is computed and             *)
(* MarkRoomSeenUpTo evaluates time.Now() before the UPDATE is sent.        *)
HandleGetRoomMessages(q, userID, roomID, limit) ==
    /\ rd[q].pc = "idle"
    /\ IsUserInRoom(roomID, userID)
    /\ LET newestID == NewestID(FirstPage(roomID, limit))
       IN  /\ newestID > 0
           /\ rd' = [rd EXCEPT ![q] = [pc |-> "seen", room_id |-> roomID, user_id |-> userID,
                                       k |-> newestID, t |-> clock]]
    /\ UNCHANGED <<roomVars, clock, msgVars, room_members, message_receipts, seenMark, lastWrite, reactVars, wsVars>>

(* The assignment to last_seen_at in room.Repository.MarkRoomSeenUpTo *)
SeenAtAssigned(current, t) == <<t>>

(* The assignment to last_seen_message_id: GREATEST(COALESCE(., 0), ?) *)
SeenIdAssigned(current, k) == <<k>>

SeenIdGreatest(current, k) == <<Max2(Coalesce(current, 0), k)>>

(* room.Repository.MarkRoomSeenUpTo: the UPDATE reaches the store. *)
RoomMarkRoomSeenUpTo(q) ==
    /\ rd[q].pc = "seen"
    /\ LET key == <<rd[q].room_id, rd[q].user_id>>
       IN  room_members' =
             IF key \in DOMAIN room_members
             THEN [room_members EXCEPT
                     ![key].last_seen_message_id = SeenIdGreatest(@, rd[q].k),
                     ![key].last_seen_at = SeenAtAssigned(@, rd[q].t)]
             ELSE room_members
    /\ rd' = [rd EXCEPT ![q] = IdleReader]
    /\ UNCHANGED <<roomVars, clock, msgVars, message_receipts, seenMark, lastWrite, reactVars, wsVars>>

(* handleMarkRoomAsRead: the timestamp is taken before the UPDATE is sent. *)
HandleMarkRoomAsRead(q, userID, roomID) ==
    /\ rd[q].pc = "idle"
    /\ roomID > 0
    /\ rd' = [rd EXCEPT ![q] = [pc |-> "read", room_id |-> roomID, user_id |-> userID,
                                k |-> 0, t |-> clock]]
    /\ UNCHANGED <<roomVars, clock, msgVars, room_members, message_receipts, seenMark, lastWrite, reactVars, wsVars>>

(* room.Repository.MarkRoomAsRead: SET last_seen_at = ? *)
MarkRoomAsRead(q) ==
    /\ rd[q].pc = "read"
    /\ LET key == <<rd[q].room_id, rd[q].user_id>>
       IN  room_members' =
             IF key \in DOMAIN room_members
             THEN [room_members EXCEPT ![key].last_seen_at = <<rd[q].t>>]
             ELSE room_members
    /\ rd' = [rd EXCEPT ![q] = IdleReader]
    /\ UNCHANGED <<roomVars, clock, msgVars, message_receipts, seenMark, lastWrite, reactVars, wsVars>>

----------------------------------------------------------------------------
(* Reaction ledger: message_reactions, as the number of rows per           *)
(* <<message_id, user_id, reaction>>                                       *)

Triples == (1..MaxId) \X Users \X Labels

NoReactions == [t \in Triples |-> 0]

(* A toggle request. snap, added and prev record the call for the         *)
(* properties: the table the call started on, its result, and the call    *)
(* the same request path completed just before. They are kept only while  *)
(* no other statement has touched the table in between.                   *)
IdleToggle == [pc |-> "idle", triple |-> <<0, 0, "">>, snap |-> <<>>,
               added |-> <<>>, prev |-> <<>>]

(* fk_reactions_message, fk_reactions_user *)
ReactionForeignKeysOk(triple) ==
    /\ \E m \in messages : m.id = triple[1]
    /\ triple[2] \in Users

(* The column reaction is VARCHAR(32) COLLATE utf8mb4_unicode_ci: two      *)
(* labels are equal to the unique key, to WHERE reaction = ? and to        *)
(* GROUP BY reaction when they differ by case only. Collate gives the      *)
(* collation class of a label.                                             *)
Collate(l) == IF l = "Like" THEN "like" ELSE l

SameLabel(a, b) == Collate(a) = Collate(b)

(* The rows of a table that hold the user's label, as the collation        *)
(* compares it.                                                            *)
Matching(rows, triple) ==
    {t \in DOMAIN rows : t[1] = triple[1] /\ t[2] = triple[2] /\ SameLabel(t[3], triple[3])}

(* uq_reaction_message_user_reaction *)
UniqueKeyMissing(rows, triple) == FALSE

UniqueKeyTaken(rows, triple) == \E t \in Matching(rows, triple) : rows[t] > 0

(* INSERT IGNORE: RowsAffected is 1 when the row went in; a duplicate key  *)
(* or a failed foreign key is ignored with RowsAffected 0.                 *)
InsertIgnoreAffected(rows, triple) ==
    IF ReactionForeignKeysOk(triple) /\ ~UniqueKeyTaken(rows, triple) THEN 1 ELSE 0

DeleteNothing(rows, triple) == rows

DeleteReaction(rows, triple) ==
    [t \in DOMAIN rows |-> IF t \in Matching(rows, triple) THEN 0 ELSE rows[t]]

(* Labels a request can carry: ToggleReaction trims the label and passes   *)
(* it on as it is, so a label and its capitalised spelling both arrive.    *)
Reactions == Labels \cup {"Like"}

ReactionRows == (1..MaxId) \X Users \X Reactions

(* ORDER BY reaction ASC: the position of a label's collation class. *)
CollationRank(l) == IF Collate(l) = "like" THEN 1 ELSE 2

(* GROUP BY [message_id,] reaction: one group per message and collation    *)
(* class with a row.                                                       *)
Groups(rows, messageIDs) ==
    {<<t[1], Collate(t[3])>> : t \in {r \in DOMAIN rows : rows[r] > 0 /\ r[1] \in messageIDs}}

GroupRows(rows, g) ==
    {t \in DOMAIN rows : rows[t] > 0 /\ t[1] = g[1] /\ Collate(t[3]) = g[2]}

RECURSIVE CountRows(_, _)
(* the number of rows under a set of keys of the ledger *)
CountRows(rows, T) ==
    IF T = {} THEN 0
    ELSE LET t == CHOOSE x \in T : TRUE
         IN  rows[t] + CountRows(rows, T \ {t})

(* ORDER BY message_id ASC, cnt DESC, reaction ASC *)
GroupBefore(rows, a, b) ==
    LET ca == CountRows(rows, GroupRows(rows, a))
        cb == CountRows(rows, GroupRows(rows, b))
    IN  \/ a[1] < b[1]
        \/ a[1] = b[1] /\ ca > cb
        \/ a[1] = b[1] /\ ca = cb /\ CollationRank(a[2]) < CollationRank(b[2])

RECURSIVE OrderBy(_, _)
OrderBy(rows, G) ==
    IF G = {} THEN <<>>
    ELSE LET g == CHOOSE x \in G : \A y \in G \ {x} : GroupBefore(rows, x, y)
         IN  <<g>> \o OrderBy(rows, G \ {g})

(* The label a group is returned under is the label of one of its rows;    *)
(* which one is the server's choice.                                       *)
Displays(rows, G) ==
    {f \in [G -> Reactions] : \A g \in G : \E t \in GroupRows(rows, g) : t[3] = f[g]}

(* One scanned row: reaction, cnt, reacted_by_me *)
ReactionSummaryItem(rows, g, viewerID, label) ==
    [reaction |-> label,
     count |-> CountRows(rows, GroupRows(rows, g)),
     reacted_by_me |-> \E t \in GroupRows(rows, g) : t[2] = viewerID]

(* The lists GetReactionSummary can return; none when it returns an error. *)
GetReactionSummary(rows, messageID, viewerID) ==
    IF messageID <= 0 THEN {}
    ELSE LET G == Groups(rows, {messageID})
             order == OrderBy(rows, G)
         IN  {[i \in 1..Len(order) |->
                  ReactionSummaryItem(rows, order[i], viewerID, f[order[i]])] :
              f \in Displays(rows, G)}

(* The maps GetReactionSummaryBatch can return: the scanned rows appended  *)
(* to result[messageID] in the order of the query.                         *)
GetReactionSummaryBatch(rows, messageIDs, viewerID) ==
    LET G == Groups(rows, messageIDs)
        order == OrderBy(rows, G)
    IN  {[m \in {g[1] : g \in G} |->
            LET mine == SelectSeq(order, LAMBDA g : g[1] = m)
            IN  [i \in 1..Len(mine) |->
                    ReactionSummaryItem(rows, mine[i], viewerID, f[mine[i]])]] :
         f \in Displays(rows, G)}

(* Another statement reached the table: the calls recorded so far are no  *)
(* longer calls in sequence.                                              *)
ForgetCalls(except) ==
    [p \in Togglers |->
        IF p \in except THEN tg[p]
        ELSE [tg[p] EXCEPT !.snap = <<>>, !.added = <<>>, !.prev = <<>>]]

(* handleToggleReaction up to the INSERT IGNORE of ToggleReaction *)
ToggleReaction(p, messageID, userID, reaction) ==
    /\ tg[p].pc = "idle"
    /\ messageID > 0 /\ userID > 0 /\ reaction # ""
    /\ LET triple == <<messageID, userID, reaction>>
           ra == InsertIgnoreAffected(message_reactions, triple)
           prev == IF tg[p].added = <<>> \/ tg[p].snap = <<>> THEN <<>>
                   ELSE <<[triple |-> tg[p].triple, snap |-> tg[p].snap[1],
                           added |-> tg[p].added[1]]>>
       IN  /\ message_reactions' =
                IF ra = 1 THEN [message_reactions EXCEPT ![triple] = @ + 1]
                ELSE message_reactions
           /\ tg' = [ForgetCalls({p}) EXCEPT ![p] =
                       [pc |-> IF ra = 1 THEN "idle" ELSE "delete",
                        triple |-> triple, snap |-> <<message_reactions>>,
                        added |-> IF ra = 1 THEN <<TRUE>> ELSE <<>>,
                        prev |-> prev]]
    /\ UNCHANGED <<roomVars, clock, msgVars, seenVars, wsVars>>

(* ToggleReaction's DELETE after an ignored insert; added = false *)
ToggleDelete(p) ==
    /\ tg[p].pc = "delete"
    /\ message_reactions' = DeleteReaction(message_reactions, tg[p].triple)
    /\ tg' = [ForgetCalls({p}) EXCEPT ![p].pc = "idle", ![p].added = <<FALSE>>]
    /\ UNCHANGED <<roomVars, clock, msgVars, seenVars, wsVars>>

(* handleRemoveReaction with a label: RemoveReaction *)
RemoveReaction(messageID, userID, reaction) ==
    /\ messageID > 0 /\ userID > 0 /\ reaction # ""
    /\ message_reactions' = DeleteReaction(message_reactions, <<messageID, userID, reaction>>)
    /\ tg' = ForgetCalls({})
    /\ UNCHANGED <<roomVars, clock, msgVars, seenVars, wsVars>>

(* handleRemoveReaction without a label: RemoveAllReactionsByUser *)
RemoveAllReactionsByUser(messageID, userID) ==
    /\ messageID > 0 /\ userID > 0
    /\ message_reactions' =
         [t \in DOMAIN message_reactions |-> IF t[1] = messageID /\ t[2] = userID THEN 0
                            ELSE message_reactions[t]]
    /\ tg' = ForgetCalls({})
    /\ UNCHANGED <<roomVars, clock, msgVars, seenVars, wsVars>>

(* The count GetReactionSummary reports for a label of a message *)
ReactionCount(rows, messageID, reaction) ==
    LET Sum[S \in SUBSET Users] ==
          IF S = {} THEN 0
          ELSE LET u == CHOOSE x \in S : TRUE
               IN  rows[<<messageID, u, reaction>>] + Sum[S \ {u}]
    IN  Sum[Users]

----------------------------------------------------------------------------
(* Connection registry and dispatcher: wsByUser, handleWebSocket,          *)
(* wsSendToUser, wsSendToUsers                                             *)

Conns == 1..MaxConns
Dispatchers == 1..NumDispatchers

(* A wsClient that handleWebSocket has not created yet. conn is "none",    *)
(* "open" or "closed"; out is the frame the writer loop is writing; wire   *)
(* is the sequence of data frames written to the connection; log is the    *)
(* sequence of envelopes ever sent into sendCh.                            *)
NoClient == [conn |-> "none", userID |-> 0, sendCh |-> <<>>, chClosed |-> FALSE,
             writer |-> "none", out |-> <<>>, reader |-> "none",
             wire |-> <<>>, log |-> <<>>]

IdleRequest == [pc |-> "idle", status |-> 0, id |-> 0, ctx |-> "live", started |-> {}]

IdleDispatch == [pc |-> "idle", result |-> "none", n |-> 0, env |-> <<>>, userIDs |-> <<>>,
                 seen |-> {}, uid |-> 0, clients |-> {}, targets |-> {},
                 sent |-> {}, closed |-> {}, room |-> 0, members |-> {}, data |-> <<>>]

(* handleWebSocket after the upgrade: the client is registered under the   *)
(* lock and its writer and reader goroutines are started.                  *)
handleWebSocket(c, userID) ==
    /\ wsClient[c].conn = "none"
    /\ wsClient' = [wsClient EXCEPT ![c] =
                      [NoClient EXCEPT !.conn = "open", !.userID = userID,
                                       !.writer = "select", !.reader = "read"]]
    /\ wsByUser' = [wsByUser EXCEPT ![userID] = @ \cup {c}]
    /\ UNCHANGED <<roomVars, clock, msgVars, seenVars, reactVars, ds, rq, served>>

(* The peer closes the connection, or a network error or the read deadline *)
(* ends it.                                                                *)
PeerClose(c) ==
    /\ wsClient[c].conn = "open"
    /\ wsClient' = [wsClient EXCEPT ![c].conn = "closed"]
    /\ UNCHANGED <<roomVars, clock, msgVars, seenVars, reactVars, wsByUser, ds, rq, served>>

(* Writer loop, case msg, ok := <-c.sendCh with ok *)
WriterReceive(c) ==
    /\ wsClient[c].writer = "select"
    /\ wsClient[c].sendCh # <<>>
    /\ wsClient' = [wsClient EXCEPT ![c].writer = "data",
                                    ![c].out = <<Head(wsClient[c].sendCh)>>,
                                    ![c].sendCh = Tail(wsClient[c].sendCh)]
    /\ UNCHANGED <<roomVars, clock, msgVars, seenVars, reactVars, wsByUser, ds, rq, served>>

(* Writer loop, case <-c.sendCh with !ok: return, and the deferred Close *)
WriterChannelClosed(c) ==
    /\ wsClient[c].writer = "select"
    /\ wsClient[c].sendCh = <<>>
    /\ wsClient[c].chClosed
    /\ wsClient' = [wsClient EXCEPT ![c].writer = "done", ![c].conn = "closed"]
    /\ UNCHANGED <<roomVars, clock, msgVars, seenVars, reactVars, wsByUser, ds, rq, served>>

(* Writer loop, case <-pingTicker.C *)
WriterPing(c) ==
    /\ wsClient[c].writer = "select"
    /\ wsClient' = [wsClient EXCEPT ![c].writer = "ping"]
    /\ UNCHANGED <<roomVars, clock, msgVars, seenVars, reactVars, wsByUser, ds, rq, served>>

(* conn.WriteMessage(websocket.TextMessage, msg): the frame follows the    *)
(* frames already written.                                                 *)
WriteMessageAhead(wire, msg) == <<msg>> \o wire

WriteMessage(wire, msg) == Append(wire, msg)

(* conn.WriteMessage in the writer loop: on a closed connection, or when   *)
(* the write deadline passes, it fails and the loop returns through the    *)
(* deferred conn.Close().                                                  *)
WriterWrite(c) ==
    /\ wsClient[c].writer \in {"data", "ping"}
    /\ \E written \in (IF wsClient[c].conn = "open" THEN {TRUE, FALSE} ELSE {FALSE}) :
         wsClient' = [wsClient EXCEPT ![c] =
            IF written
            THEN [@ EXCEPT !.writer = "select", !.out = <<>>,
                           !.wire = IF wsClient[c].writer = "data"
                                    THEN WriteMessage(@, wsClient[c].out[1]) ELSE @]
            ELSE [@ EXCEPT !.writer = "done", !.out = <<>>, !.conn = "closed"]]
    /\ UNCHANGED <<roomVars, clock, msgVars, seenVars, reactVars, wsByUser, ds, rq, served>>

(* Reader loop: ReadMessage fails on the closed connection; the deferred   *)
(* cleanup removes the client from wsByUser under the lock.                *)
DeleteKeeps(set, c) == set

(* delete(m, c) under the registry lock *)
Delete(set, c) == set \ {c}

ReaderExit(c) ==
    /\ wsClient[c].reader = "read"
    /\ wsClient[c].conn = "closed"
    /\ wsByUser' = [wsByUser EXCEPT ![wsClient[c].userID] = Delete(@, c)]
    /\ wsClient' = [wsClient EXCEPT ![c].reader = "cleanup"]
    /\ UNCHANGED <<roomVars, clock, msgVars, seenVars, reactVars, ds, rq, served>>

(* Reader cleanup after the unlock: close(c.sendCh) *)
ReaderCloseSendCh(c) ==
    /\ wsClient[c].reader = "cleanup"
    /\ wsClient' = [wsClient EXCEPT ![c].reader = "done", ![c].chClosed = TRUE]
    /\ UNCHANGED <<roomVars, clock, msgVars, seenVars, reactVars, wsByUser, ds, rq, served>>

(* go wsSendToUsers(userIDs, env) / wsSendToUser(uid, env) as a list of one. *)
(* The envelope is the n-th one goroutine d marshals: <<d, n>>.             *)
Dispatching(d, userIDs) ==
    [ds EXCEPT ![d] = [IdleDispatch EXCEPT !.pc = "users", !.n = ds[d].n + 1,
                                         !.env = <<d, ds[d].n + 1>>,
                                         !.userIDs = userIDs]]

CanDispatch(d) == ds[d].pc = "idle" /\ ds[d].n < MaxEnv

(* The same with an envelope whose RoomID is set; members records who      *)
(* belongs to that room when the call is made.                             *)
DispatchingRoom(d, userIDs, roomID, members) ==
    [Dispatching(d, userIDs) EXCEPT ![d].room = roomID, ![d].members = members]

wsSendToUsers(d, userIDs) ==
    /\ CanDispatch(d)
    /\ ds' = Dispatching(d, userIDs)
    /\ UNCHANGED <<roomVars, clock, msgVars, seenVars, reactVars, wsByUser, wsClient, rq, served>>

(* if _, ok := seen[uid]; ok { continue } *)
AlreadySeenNever(seen, uid) == FALSE

AlreadySeen(seen, uid) == uid \in seen

(* wsSendToUsers: the loop over userIDs, skipping a user already seen *)
SendToUsersLoop(d) ==
    /\ ds[d].pc = "users"
    /\ LET ids == ds[d].userIDs
       IN  ds' = [ds EXCEPT ![d] =
             IF ids = <<>> THEN [@ EXCEPT !.pc = "idle", !.result = "done"]
             ELSE IF AlreadySeen(ds[d].seen, Head(ids)) THEN [@ EXCEPT !.userIDs = Tail(ids)]
             ELSE [@ EXCEPT !.userIDs = Tail(ids), !.seen = @ \cup {Head(ids)},
                            !.uid = Head(ids), !.pc = "snapshot"]]
    /\ UNCHANGED <<roomVars, clock, msgVars, seenVars, reactVars, wsByUser, wsClient, rq, served>>

(* wsSendToUser under the read lock: copy the user's set of clients *)
SendToUserSnapshot(d) ==
    /\ ds[d].pc = "snapshot"
    /\ LET set == wsByUser[ds[d].uid]
       IN  ds' = [ds EXCEPT ![d] =
             IF set = {} THEN [@ EXCEPT !.pc = "users"]
             ELSE [@ EXCEPT !.pc = "send", !.clients = set, !.targets = @ \cup set]]
    /\ UNCHANGED <<roomVars, clock, msgVars, seenVars, reactVars, wsByUser, wsClient, rq, served>>

(* select { case c.sendCh <- b: ... default: ... } never waits: one of the *)
(* two cases is taken whatever the queue holds.                            *)
SendReadyWhenRoom(cl) == Len(cl.sendCh) < QueueCap

SendReady(cl) == TRUE

(* case c.sendCh <- b is taken when the buffer has room *)
HasRoom(cl) == Len(cl.sendCh) < QueueCap

(* case c.sendCh <- b *)
EnqueueNothing(cl, b) == cl

EnqueueWriteThrough(cl, b) == [cl EXCEPT !.wire = Append(@, b)]

Enqueue(cl, b) == [cl EXCEPT !.sendCh = Append(@, b), !.log = Append(@, b)]

(* default: c.conn.Close() on the client whose queue is full *)
EvictAll(table, c) ==
    [x \in DOMAIN table |->
        IF table[x].userID = table[c].userID /\ table[x].conn = "open"
        THEN [table[x] EXCEPT !.conn = "closed"] ELSE table[x]]

Evict(table, c) == [table EXCEPT ![c].conn = "closed"]

(* The clients left to visit after c *)
Rest(clients, c) == clients \ {c}

(* wsSendToUser after the unlock: one iteration of the loop over the       *)
(* copied clients. A send on a closed channel panics.                      *)
SendToUserEnqueue(d) ==
    /\ ds[d].pc = "send"
    /\ \E c \in ds[d].clients :
         LET cl == wsClient[c]
             rest == Rest(ds[d].clients, c)
             pc == IF rest = {} THEN "users" ELSE "send"
         IN  /\ SendReady(cl)
             /\ IF cl.chClosed
                THEN /\ ds' = [ds EXCEPT ![d].pc = "idle", ![d].result = "panic"]
                     /\ wsClient' = wsClient
                ELSE IF HasRoom(cl)
                THEN /\ wsClient' = [wsClient EXCEPT ![c] = Enqueue(cl, ds[d].env)]
                     /\ ds' = [ds EXCEPT ![d].clients = rest, ![d].pc = pc,
                                         ![d].sent = @ \cup {c}]
                ELSE /\ wsClient' = Evict(wsClient, c)
                     /\ ds' = [ds EXCEPT ![d].clients = rest, ![d].pc = pc,
                                         ![d].closed = @ \cup {c}]
    /\ UNCHANGED <<roomVars, clock, msgVars, seenVars, reactVars, wsByUser, rq, served>>

----------------------------------------------------------------------------
(* handleSendMessage after CreateMessage: the response, then the fan-out   *)

(* The status written for CreateMessage's outcome *)
ResponseStatus(result) ==
    IF result = "ok" THEN 200
    ELSE IF result = "InvalidReplyTarget" THEN 400 ELSE 500

(* The orders in which a query may return the users of a set *)
Orderings(S) ==
    {q \in UNION {[1..n -> S] : n \in {Cardinality(S)}} : \A u \in S : \E i \in DOMAIN q : q[i] = u}

GetRoomMemberIDs(roomID) == {u \in Users : <<roomID, u>> \in DOMAIN room_members}

ListRoomMemberUserIDsExcept(roomID, excludeUserID) ==
    GetRoomMemberIDs(roomID) \ {excludeUserID}

(* writeJSON: an error answers 400 or 500 and ends the request; success    *)
(* answers 200 with the id and goes on to the fan-out.                     *)
Respond(p) ==
    /\ cm[p].pc = "idle" /\ cm[p].result # "none"
    /\ rq[p].pc = "idle" /\ rq[p].status = 0
    /\ rq' = [rq EXCEPT ![p] =
                [pc |-> IF cm[p].result = "ok" THEN "members" ELSE "idle",
                 status |-> ResponseStatus(cm[p].result), id |-> cm[p].id,
                 ctx |-> rq[p].ctx, started |-> {}]]
    /\ UNCHANGED <<roomVars, clock, msgVars, seenVars, reactVars, wsByUser, wsClient, ds, served>>

(* r.Context() is cancelled when the client's connection goes away while  *)
(* the handler is still running, so also between writeJSON and the         *)
(* lookups of the fan-out.                                                 *)
CancelContext(p) ==
    /\ rq[p].pc # "idle"
    /\ rq[p].ctx = "live"
    /\ rq' = [rq EXCEPT ![p].ctx = "cancelled"]
    /\ UNCHANGED <<roomVars, clock, msgVars, seenVars, reactVars, wsByUser, wsClient, ds, served>>

(* QueryContext(ctx, ...) returns the context's error once ctx is done *)
ContextAlive(r) == r.ctx = "live"

(* A failed lookup during the fan-out is logged and the handler returns *)
FanoutFailedRewrites(r) == [r EXCEPT !.pc = "idle", !.status = 500, !.id = 0]

FanoutFailed(r) == [r EXCEPT !.pc = "idle"]

(* GetRoomMemberIDs, then go wsSendToUsers(memberIDs, message_created) *)
FanoutMembers(p, found) ==
    /\ rq[p].pc = "members"
    /\ IF found
       THEN \E d \in Dispatchers, ids \in Orderings(GetRoomMemberIDs(cm[p].msg.room_id)) :
              /\ CanDispatch(d)
              /\ ds' = DispatchingRoom(d, ids, cm[p].msg.room_id,
                                       GetRoomMemberIDs(cm[p].msg.room_id))
              /\ rq' = [rq EXCEPT ![p].pc = "recipients",
                                  ![p].started = @ \cup {"message_created"}]
       ELSE /\ rq' = [rq EXCEPT ![p] = FanoutFailed(@)]
            /\ ds' = ds
    /\ UNCHANGED <<roomVars, clock, msgVars, seenVars, reactVars, wsByUser, wsClient, served>>

(* ListRoomMemberUserIDsExcept, then the goroutine that sends              *)
(* room_unread_update to each recipient whose GetUnreadCount succeeded     *)
(* (a failed count skips the recipient).                                   *)
FanoutRecipients(p, found) ==
    /\ rq[p].pc = "recipients"
    /\ found => ContextAlive(rq[p])
    /\ IF found
       THEN \E d \in Dispatchers,
               counted \in SUBSET ListRoomMemberUserIDsExcept(cm[p].msg.room_id,
                                                               cm[p].msg.sender_id) :
              \E ids \in Orderings(counted) :
                 /\ CanDispatch(d)
                 /\ ds' = DispatchingRoom(d, ids, cm[p].msg.room_id,
                                          GetRoomMemberIDs(cm[p].msg.room_id))
                 /\ rq' = [rq EXCEPT ![p].pc = "idle",
                                     ![p].started = @ \cup {"room_unread_update"}]
       ELSE /\ rq' = [rq EXCEPT ![p] = FanoutFailed(@)]
            /\ ds' = ds
    /\ UNCHANGED <<roomVars, clock, msgVars, seenVars, reactVars, wsByUser, wsClient, served>>

----------------------------------------------------------------------------
(* History: handleGetRoomMessages with the cursor (before_at, before_id)   *)

IdlePager == [pc |-> "idle", limit |-> 0, pages |-> <<>>]

PageLimits == {1, 2}

(* m.CreatedAt.Format(time.RFC3339) of the response and time.Parse of the  *)
(* query parameter before_at; a string that does not parse leaves beforeAt *)
(* zero.                                                                   *)
FormatRFC3339(t) == ToString(t)

ParseRFC3339(v) ==
    IF \E t \in 0..MaxClock : ToString(t) = v
    THEN <<CHOOSE t \in 0..MaxClock : ToString(t) = v>>
    ELSE <<>>

(* room.Repository.GetMessageCreatedAt: created_at of (room, id), none     *)
(* when the row is missing.                                                *)
GetMessageCreatedAt(roomID, messageID) ==
    IF \E m \in messages : m.room_id = roomID /\ m.id = messageID
    THEN <<(CHOOSE m \in messages : m.room_id = roomID /\ m.id = messageID).created_at>>
    ELSE <<>>

(* ? = 0 OR m.created_at < ? OR (m.created_at = ? AND m.id < ?) *)
BeforeCursorNoTie(m, cursorEnabled, beforeAt, beforeID) ==
    \/ ~cursorEnabled
    \/ m.created_at < beforeAt[1]

BeforeCursor(m, cursorEnabled, beforeAt, beforeID) ==
    \/ ~cursorEnabled
    \/ m.created_at < beforeAt[1]
    \/ m.created_at = beforeAt[1] /\ m.id < beforeID

RECURSIVE Ascending(_)
(* ORDER BY t.created_at ASC, t.id ASC: the ids of a set of rows *)
Ascending(rows) ==
    IF rows = {} THEN <<>>
    ELSE LET first == CHOOSE m \in rows : \A x \in rows \ {m} : Later(x, m)
         IN  <<first.id>> \o Ascending(rows \ {first})

(* room.Repository.GetRoomMessages: the newest limit rows before the       *)
(* cursor, returned oldest first.                                          *)
GetRoomMessages(roomID, beforeID, beforeAt, limit) ==
    LET cursorEnabled == beforeID > 0 /\ beforeAt # <<>>
        rows == {m \in messages : /\ m.room_id = roomID
                                   /\ BeforeCursor(m, cursorEnabled, beforeAt, beforeID)}
        page == {m \in rows : Cardinality({x \in rows : Later(x, m)}) < limit}
    IN  Ascending(page)

RECURSIVE MaxOfSeq(_)
MaxOfSeq(q) == IF q = <<>> THEN 0 ELSE Max2(Head(q), MaxOfSeq(Tail(q)))

(* handleGetRoomMessages: the page for the parameters before_id and        *)
(* before_at (none, or a string); a lone before_id is completed with the   *)
(* created_at of that message.                                             *)
RoomMessagesPage(roomID, limit, beforeID, beforeAtParam) ==
    LET parsed == IF beforeAtParam = <<>> THEN <<>> ELSE ParseRFC3339(beforeAtParam[1])
        beforeAt == IF beforeID > 0 /\ parsed = <<>>
                    THEN GetMessageCreatedAt(roomID, beforeID) ELSE parsed
    IN  GetRoomMessages(roomID, beforeID, beforeAt, limit)

(* The first request of the traversal, without a cursor: the page is       *)
(* answered after the membership's seen cursor is moved to the newest id   *)
(* of the page and room_seen_update is sent to the other members.          *)
handleGetRoomMessagesFirst(q, userID, roomID, limit) ==
    /\ pg.pc = "idle"
    /\ rd[q].pc = "idle"
    /\ IsUserInRoom(roomID, userID)
    /\ LET msgs == RoomMessagesPage(roomID, limit, 0, <<>>)
           newestID == MaxOfSeq(msgs)
       IN  /\ pg' = [pc |-> IF msgs = <<>> THEN "done" ELSE "paging", limit |-> limit,
                     pages |-> <<msgs>>]
           /\ IF newestID > 0
              THEN /\ rd' = [rd EXCEPT ![q] = [pc |-> "seen", room_id |-> roomID,
                                                user_id |-> userID, k |-> newestID,
                                                t |-> clock]]
                   /\ \E d \in Dispatchers,
                         ids \in Orderings(GetRoomMemberIDs(roomID) \ {userID}) :
                         /\ CanDispatch(d)
                         /\ ds' = Dispatching(d, ids)
              ELSE rd' = rd /\ ds' = ds
    /\ UNCHANGED <<rooms, nextRoomId, cd, clock, msgVars, room_members, message_receipts,
                   seenMark, lastWrite, reactVars, wsByUser, wsClient, rq, served>>

(* A further request of the traversal: the cursor is the oldest message of *)
(* the page received last, sent as before_id and before_at.                *)
handleGetRoomMessagesBefore(userID, roomID) ==
    /\ pg.pc = "paging"
    /\ IsUserInRoom(roomID, userID)
    /\ LET last == pg.pages[Len(pg.pages)]
           oldest == CHOOSE m \in messages : m.id = last[1]
           msgs == RoomMessagesPage(roomID, pg.limit, oldest.id,
                                    <<FormatRFC3339(oldest.created_at)>>)
       IN  pg' = [pg EXCEPT !.pc = IF msgs = <<>> THEN "done" ELSE "paging",
                            !.pages = Append(@, msgs)]
    /\ UNCHANGED <<rooms, nextRoomId, cd, clock, msgVars, seenVars, reactVars, wsVars>>

----------------------------------------------------------------------------
(* The reaction and mark-seen handlers with their realtime part            *)

(* chat.Repository.GetMessageRoomID *)
GetMessageRoomID(messageID) == (CHOOSE m \in messages : m.id = messageID).room_id

(* go wsSendToUsers(memberIDs, env) with the members of the room *)
BroadcastToRoom(roomID) ==
    \E d \in Dispatchers, ids \in Orderings(GetRoomMemberIDs(roomID)) :
       /\ CanDispatch(d)
       /\ ds' = DispatchingRoom(d, ids, roomID, GetRoomMemberIDs(roomID))

(* handleDeleteUserGroup: only the owner removes a member, never himself;  *)
(* after the DELETE the remaining members, the requester and the removed   *)
(* user are sent room.member_removed.                                      *)
handleDeleteUserGroup(requesterID, roomID, targetUserID) ==
    /\ GetRoomOwner(roomID) = <<requesterID>>
    /\ targetUserID # requesterID
    /\ room_members' = DeleteMember(room_members, roomID, targetUserID)
    /\ LET members == {u \in Users : <<roomID, u>> \in DOMAIN room_members'}
       IN  \E d \in Dispatchers, ids \in Orderings(members) :
              /\ CanDispatch(d)
              /\ ds' = DispatchingRoom(d, ids \o <<requesterID, targetUserID>>,
                                       roomID, members)
    /\ UNCHANGED <<roomVars, clock, msgVars, message_receipts, rd, seenMark, lastWrite,
                   reactVars, wsByUser, wsClient, rq, served>>

(* The goroutine of handleToggleReaction: GetMessageRoomID,                *)
(* GetReactionSummary(messageID, actorUserID), GetRoomMemberIDs, then      *)
(* wsSendToUsers(memberIDs, reaction_updated) with the one summary for     *)
(* every member. held records the labels each user held on the message     *)
(* when the summary was read.                                              *)
SummaryViewer(actorUserID) == actorUserID

BroadcastReactionUpdated(rows, messageID, actorUserID) ==
    LET roomID == GetMessageRoomID(messageID)
    IN  \E d \in Dispatchers, ids \in Orderings(GetRoomMemberIDs(roomID)),
           items \in GetReactionSummary(rows, messageID, SummaryViewer(actorUserID)) :
           /\ CanDispatch(d)
           /\ ds' = [DispatchingRoom(d, ids, roomID, GetRoomMemberIDs(roomID))
                       EXCEPT ![d].data =
                         <<[message_id |-> messageID, reactions |-> items,
                            held |-> [u \in Users |->
                                        {t[3] : t \in {r \in DOMAIN rows :
                                            rows[r] > 0 /\ r[1] = messageID /\ r[2] = u}}]]>>]

(* The handler has written its 200 response and returns *)
Answered(op) == served' = served \cup {[op |-> op, spawned |-> ds' # ds]}

(* handleToggleReaction: ToggleReaction's INSERT IGNORE; when the row went *)
(* in, the response and the goroutine that broadcasts reaction_updated.    *)
handleToggleReaction(p, messageID, userID, reaction) ==
    /\ tg[p].pc = "idle"
    /\ messageID > 0 /\ reaction # ""
    /\ LET triple == <<messageID, userID, reaction>>
           ra == InsertIgnoreAffected(message_reactions, triple)
       IN  IF ra = 1
           THEN /\ message_reactions' = [message_reactions EXCEPT ![triple] = @ + 1]
                /\ tg' = [tg EXCEPT ![p] = [IdleToggle EXCEPT !.triple = triple]]
                /\ BroadcastReactionUpdated(message_reactions', messageID, userID)
                /\ Answered("toggle")
           ELSE /\ message_reactions' = message_reactions
                /\ tg' = [tg EXCEPT ![p] = [IdleToggle EXCEPT !.triple = triple, !.pc = "delete"]]
                /\ ds' = ds /\ served' = served
    /\ UNCHANGED <<roomVars, clock, msgVars, seenVars, wsByUser, wsClient, rq>>

(* handleToggleReaction: ToggleReaction's DELETE, the response and the     *)
(* goroutine.                                                              *)
handleToggleReactionDelete(p) ==
    /\ tg[p].pc = "delete"
    /\ message_reactions' = DeleteReaction(message_reactions, tg[p].triple)
    /\ tg' = [tg EXCEPT ![p].pc = "idle"]
    /\ BroadcastReactionUpdated(message_reactions', tg[p].triple[1], tg[p].triple[2])
    /\ Answered("toggle")
    /\ UNCHANGED <<roomVars, clock, msgVars, seenVars, wsByUser, wsClient, rq>>

(* handleRemoveReaction: RemoveAllReactionsByUser when the label is empty, *)
(* RemoveReaction otherwise; the response; return.                         *)
handleRemoveReaction(messageID, userID, reaction) ==
    /\ messageID > 0
    /\ message_reactions' =
         IF reaction = ""
         THEN [t \in DOMAIN message_reactions |-> IF t[1] = messageID /\ t[2] = userID THEN 0
                                 ELSE message_reactions[t]]
         ELSE DeleteReaction(message_reactions, <<messageID, userID, reaction>>)
    /\ ds' = ds
    /\ Answered(IF reaction = "" THEN "remove_all" ELSE "remove")
    /\ UNCHANGED <<roomVars, clock, msgVars, seenVars, tg, wsByUser, wsClient, rq>>

(* handleMarkRoomSeenUpTo: the bulk upsert, the response, GetRoomMemberIDs *)
(* and go wsSendToUsers(memberIDs, room_seen_update).                      *)
handleMarkRoomSeenUpTo(userID, roomID, upToMessageID, now) ==
    /\ roomID > 0 /\ upToMessageID > 0
    /\ IsUserInRoom(roomID, userID)
    /\ message_receipts' = MarkRoomSeenUpTo(message_receipts, roomID, userID, upToMessageID, now)
    /\ seenMark' = [seenMark EXCEPT ![<<roomID, userID>>] = <<upToMessageID, now>>]
    /\ lastWrite' = <<[op |-> "MarkRoomSeenUpTo", room_id |-> roomID, message_id |-> upToMessageID,
                       user_id |-> userID, now |-> now]>>
    /\ BroadcastToRoom(roomID)
    /\ Answered("mark_seen")
    /\ UNCHANGED <<roomVars, clock, msgVars, room_members, rd, reactVars, wsByUser, wsClient, rq>>

----------------------------------------------------------------------------
(* Specification of the message pipeline: concurrent send-message requests *)

ReplyInputs == {<<>>} \cup {<<k>> : k \in (0 - 1)..MaxId}

StatementTimes == 1..clock

InitMembers == [k \in Rooms \X Users |-> [last_seen_message_id |-> <<>>, last_seen_at |-> <<>>]]

(* No connection registered, no dispatch and no request under way *)
InitRooms ==
    /\ rooms = {[id |-> r, type |-> "group", created_by |-> 1] : r \in Rooms}
    /\ nextRoomId = 3
    /\ cd = [p \in Creators |-> IdleCreate]
    /\ pg = IdlePager

InitWs ==
    /\ wsByUser = [u \in Users |-> {}]
    /\ wsClient = [c \in Conns |-> NoClient]
    /\ ds = [d \in Dispatchers |-> IdleDispatch]
    /\ rq = [p \in Procs |-> IdleRequest]
    /\ served = {}

InitStore ==
    /\ clock = 1
    /\ messages = {}
    /\ nextId = 1
    /\ cm = [p \in Procs |-> IdleCall]
    /\ room_members = InitMembers
    /\ message_receipts = <<>>
    /\ rd = [q \in Readers |-> IdleReader]
    /\ seenMark = [k \in Rooms \X Users |-> <<>>]
    /\ lastWrite = <<>>
    /\ message_reactions = NoReactions
    /\ tg = [p \in Togglers |-> IdleToggle]
    /\ InitWs
    /\ InitRooms

(* Concurrent requests of one sender, with and without the system type. *)
SendMessage(p) ==
    \E roomID \in Rooms, msgType \in {"text", "system"} :
        HandleSendMessage(p, roomID, 1, msgType, <<>>)

NextMsg ==
    \/ Tick
    \/ \E p \in Procs : SendMessage(p)
    \/ \E p \in Procs : SpDaySeparator(p)
    \/ \E p \in Procs : SpInsertMessage(p)
    \/ \E p \in Procs : CommitMessage(p)

SpecMsg == InitStore /\ [][NextMsg]_vars

(* CreateMessageWithAttachments up to the commit: BeginTx, then            *)
(* CreateMessageTx validates the reply target and inserts the row into     *)
(* messages directly; created_at is the column default, the time of the    *)
(* insert. The attachments' inserts follow in the same transaction.        *)
CreateMessageTx(p, roomID, senderID, msgType, replyTo) ==
    /\ cm[p].pc = "idle"
    /\ nextId <= MaxId
    /\ LET msg == [room_id |-> roomID, sender_id |-> senderID, message_type |-> msgType,
                   reply_to |-> replyTo, created_at |-> clock]
       IN  IF ValidatesReply(replyTo) /\ ~fetchReplyInfo(roomID, replyTo[1])
           THEN /\ cm' = [cm EXCEPT ![p] = [pc |-> "idle", msg |-> msg, tx |-> {},
                                            result |-> "InvalidReplyTarget", id |-> 0]]
                /\ nextId' = nextId
           ELSE /\ cm' = [cm EXCEPT ![p] = [pc |-> "commit", msg |-> msg,
                                            tx |-> {MessageRow(nextId, msg)},
                                            result |-> "none", id |-> nextId]]
                /\ nextId' = nextId + 1
    /\ UNCHANGED <<roomVars, clock, messages, seenVars, reactVars, wsVars>>

(* CreateImageMessage: one INSERT on the pool, message_type 'image',       *)
(* created_at = time.Now().                                                *)
CreateImageMessage(roomID, senderID) ==
    /\ nextId <= MaxId
    /\ messages' = messages \cup
          {MessageRow(nextId, [room_id |-> roomID, sender_id |-> senderID,
                               message_type |-> "image", reply_to |-> <<>>,
                               created_at |-> clock])}
    /\ nextId' = nextId + 1
    /\ seenMark' = [k \in DOMAIN seenMark |-> IF k[1] = roomID THEN <<>> ELSE seenMark[k]]
    /\ UNCHANGED <<roomVars, clock, cm, room_members, message_receipts, rd, lastWrite, reactVars, wsVars>>

(* The three creation paths side by side, in one room. *)
NextPaths ==
    \/ Tick
    \/ \E p \in Procs : HandleSendMessage(p, 1, 1, "text", <<>>)
    \/ \E p \in Procs : SpDaySeparator(p)
    \/ \E p \in Procs : SpInsertMessage(p)
    \/ \E p \in Procs : CommitMessage(p)
    \/ \E p \in Procs, u \in Users : CreateMessageTx(p, 1, u, "file", <<>>)
    \/ \E u \in Users : CreateImageMessage(1, u)

SpecPaths == InitStore /\ [][NextPaths]_vars

----------------------------------------------------------------------------
(* Specification of reply validation: one request at a time, any reply id *)

SendReply ==
    \E roomID \in Rooms, replyTo \in ReplyInputs :
        HandleSendMessage(1, roomID, 1, "text", replyTo)

NextReply ==
    \/ Tick
    \/ SendReply
    \/ SpDaySeparator(1)
    \/ SpInsertMessage(1)
    \/ CommitMessage(1)

SpecReply == InitStore /\ [][NextReply]_vars

----------------------------------------------------------------------------
(* Specification of the seen state of room 1 as user 1 sees it: messages   *)
(* sent one at a time by either user, POST /rooms/seen, and concurrent     *)
(* requests that write the membership's last_seen_at.                      *)

SendInRoom ==
    \E userID \in Users : HandleSendMessage(1, 1, userID, "text", <<>>)

MarkSeen ==
    \E upTo \in 1..MaxId, now \in StatementTimes : HandleMarkRoomSeenUpTo(1, 1, upTo, now)

GetMessages(q) ==
    \E limit \in {1, 20} : HandleGetRoomMessages(q, 1, 1, limit)

NextSeen ==
    \/ Tick
    \/ SendInRoom
    \/ SpDaySeparator(1)
    \/ SpInsertMessage(1)
    \/ CommitMessage(1)
    \/ MarkSeen
    \/ GetMessages(1)
    \/ RoomMarkRoomSeenUpTo(1)

SpecSeen == InitStore /\ [][NextSeen]_vars

----------------------------------------------------------------------------
(* Specification of mark-seen under concurrent writers: two send-message   *)
(* requests of user 2 in room 1, each stamped by its handler and given its *)
(* id by its insert, and POST /rooms/seen of user 1.                       *)

NextSkew ==
    \/ Tick
    \/ \E p \in Procs : HandleSendMessage(p, 1, 2, "text", <<>>)
    \/ \E p \in Procs : SpDaySeparator(p)
    \/ \E p \in Procs : SpInsertMessage(p)
    \/ \E p \in Procs : CommitMessage(p)
    \/ \E upTo \in 1..MaxId : HandleMarkRoomSeenUpTo(1, 1, upTo, clock)

SpecSkew == InitStore /\ [][NextSkew]_vars

----------------------------------------------------------------------------
(* Specification of a traversal of room 1: concurrent send-message         *)
(* requests of user 2 fill the room, with equal timestamps and with ids    *)
(* out of timestamp order; then user 1 pages backwards while nothing is    *)
(* inserted.                                                               *)

NoInsertInFlight == \A p \in Procs : cm[p].pc = "idle"

NextPage ==
    \/ pg.pc = "idle" /\ Tick
    \/ \E p \in Procs : pg.pc = "idle" /\ HandleSendMessage(p, 1, 2, "text", <<>>)
    \/ \E p \in Procs : SpDaySeparator(p)
    \/ \E p \in Procs : SpInsertMessage(p)
    \/ \E p \in Procs : CommitMessage(p)
    \/ \E limit \in PageLimits :
         NoInsertInFlight /\ handleGetRoomMessagesFirst(1, 1, 1, limit)
    \/ handleGetRoomMessagesBefore(1, 1)
    \/ RoomMarkRoomSeenUpTo(1)
    \/ \E d \in Dispatchers : SendToUsersLoop(d)

SpecPage == InitStore /\ [][NextPage]_vars

----------------------------------------------------------------------------
(* Specification of the membership's last_seen_at under concurrent writers *)

NextCursor ==
    \/ Tick
    \/ SendInRoom
    \/ SpDaySeparator(1)
    \/ SpInsertMessage(1)
    \/ CommitMessage(1)
    \/ \E q \in Readers : GetMessages(q)
    \/ \E q \in Readers : RoomMarkRoomSeenUpTo(q)
    \/ \E q \in Readers : HandleMarkRoomAsRead(q, 1, 1)
    \/ \E q \in Readers : MarkRoomAsRead(q)

SpecCursor == InitStore /\ [][NextCursor]_vars

----------------------------------------------------------------------------
(* Specification of the receipt writes of user 1 on the first two rows of  *)
(* room 1 (a separator and a message of user 2), while user 2 keeps        *)
(* sending.                                                                *)

ReceiptIds == {1, 2}

NextReceipt ==
    \/ Tick
    \/ HandleSendMessage(1, 1, 2, "text", <<>>)
    \/ SpDaySeparator(1)
    \/ SpInsertMessage(1)
    \/ CommitMessage(1)
    \/ \E upTo \in ReceiptIds, now \in StatementTimes : HandleMarkRoomSeenUpTo(1, 1, upTo, now)
    \/ \E messageID \in ReceiptIds, now \in StatementTimes : SetDelivered(1, messageID, 1, now)
    \/ \E messageID \in ReceiptIds, now \in StatementTimes : SetSeen(1, messageID, 1, now)

SpecReceipt == InitStore /\ [][NextReceipt]_vars

----------------------------------------------------------------------------
(* Who has seen a message: the summary and the list of users               *)

(* GetMessageRoomAndSender: none when the message is missing *)
GetMessageRoomAndSender(messageID) ==
    IF \E m \in messages : m.id = messageID
    THEN LET m == CHOOSE x \in messages : x.id = messageID
         IN  <<[roomID |-> m.room_id, senderID |-> m.sender_id]>>
    ELSE <<>>

(* WHERE message_id = ? AND status = 'seen' AND user_id <> ? (the last     *)
(* condition only with a positive excludeUserID)                           *)
SeenUsersExcept(receipts, messageID, excludeUserID) ==
    {u \in Users : /\ <<messageID, u>> \in ReceiptKeys(receipts)
                   /\ receipts[<<messageID, u>>].status = "seen"
                   /\ (excludeUserID = 0 \/ u # excludeUserID)}

(* chat.Repository.GetMessageSeenSummary *)
GetMessageSeenSummary(receipts, messageID, meUserID, excludeUserID) ==
    [messageID |-> messageID,
     seenCount |-> Cardinality(SeenUsersExcept(receipts, messageID, excludeUserID)),
     seenByMe |-> meUserID \in SeenUsersExcept(receipts, messageID, 0)]

(* chat.Repository.ListSeenUsersByMessage: ORDER BY seen_at DESC LIMIT     *)
(* limit; the sets of users a call may return (rows of equal seen_at come  *)
(* in any order, so the cut of the limit may fall among them).             *)
ListSeenUsersByMessage(receipts, messageID, excludeUserID, limit) ==
    LET all == SeenUsersExcept(receipts, messageID, excludeUserID)
        at(u) == receipts[<<messageID, u>>].seen_at
        n == IF Cardinality(all) < limit THEN Cardinality(all) ELSE limit
    IN  {S \in SUBSET all :
            /\ Cardinality(S) = n
            /\ \A u \in S, v \in all \ S : at(u) >= at(v)}

(* handleGetMessageSeenSummary: 404 on a missing message, 403 for a        *)
(* non-member, else the summary that leaves out the sender.                *)
handleGetMessageSeenSummary(userID, messageID) ==
    LET found == GetMessageRoomAndSender(messageID)
    IN  IF found = <<>> THEN [status |-> 404]
        ELSE IF ~IsUserInRoom(found[1].roomID, userID) THEN [status |-> 403]
        ELSE [status |-> 200,
              body |-> GetMessageSeenSummary(message_receipts, messageID, userID,
                                             found[1].senderID)]

(* handleListSeenUsersByMessage passes the requesting user as              *)
(* excludeUserID.                                                          *)
ExcludeRequester(userID, senderID) == userID

(* handleListSeenUsersByMessage: the responses the request may get *)
handleListSeenUsersByMessage(userID, messageID, limit) ==
    LET found == GetMessageRoomAndSender(messageID)
    IN  IF found = <<>> THEN {[status |-> 404]}
        ELSE IF ~IsUserInRoom(found[1].roomID, userID) THEN {[status |-> 403]}
        ELSE {[status |-> 200, messageID |-> messageID, users |-> S] :
                S \in ListSeenUsersByMessage(message_receipts, messageID,
                                             ExcludeRequester(userID, found[1].senderID),
                                             limit)}

----------------------------------------------------------------------------
(* Reactions are toggled on a store that holds the rows of one             *)
(* send-message request: the separator of day 0 and the message.           *)

SeedMessages ==
    {DaySeparatorRow(1, 1, 0),
     MessageRow(2, [room_id |-> 1, sender_id |-> 1, message_type |-> "text",
                    reply_to |-> <<>>, created_at |-> 1])}

InitReact ==
    /\ clock = 1
    /\ messages = SeedMessages
    /\ nextId = 3
    /\ cm = [p \in Procs |-> IdleCall]
    /\ room_members = InitMembers
    /\ message_receipts = <<>>
    /\ rd = [q \in Readers |-> IdleReader]
    /\ seenMark = [k \in Rooms \X Users |-> <<>>]
    /\ lastWrite = <<>>
    /\ message_reactions = NoReactions
    /\ tg = [p \in Togglers |-> IdleToggle]
    /\ InitWs
    /\ InitRooms

(* One request at a time: toggles and removals of any user and label,      *)
(* also on a message id that names no message.                             *)
NextReactSeq ==
    \/ \E m \in {2, 3}, u \in Users, l \in Labels : ToggleReaction(1, m, u, l)
    \/ ToggleDelete(1)
    \/ \E u \in Users, l \in Labels : RemoveReaction(2, u, l)
    \/ \E u \in Users : RemoveAllReactionsByUser(2, u)

SpecReactSeq == InitReact /\ [][NextReactSeq]_vars

(* Concurrent toggles and removals on message 2. *)
NextReact ==
    \/ \E p \in Togglers, u \in Users, l \in Labels : ToggleReaction(p, 2, u, l)
    \/ \E p \in Togglers : ToggleDelete(p)
    \/ \E u \in Users, l \in Labels : RemoveReaction(2, u, l)
    \/ \E u \in Users : RemoveAllReactionsByUser(2, u)

SpecReact == InitReact /\ [][NextReact]_vars

(* The receipts of both users on the seeded store of room 1, written by    *)
(* mark-seen requests and by SetSeen, while time passes.                   *)
NextSeenBy ==
    \/ Tick
    \/ \E u \in Users, upTo \in 1..2 : HandleMarkRoomSeenUpTo(u, 1, upTo, clock)
    \/ \E u \in Users : SetSeen(1, 2, u, clock)
    \/ \E u \in Users : SetDelivered(1, 2, u, clock)

SpecSeenBy == InitReact /\ [][NextSeenBy]_vars

(* The reactions held when the concurrent toggles below start: each was    *)
(* put there by one earlier toggle.                                        *)
HeldAtStart == {<<2, 1, "like">>, <<2, 2, "love">>}

InitFlip ==
    /\ clock = 1
    /\ messages = SeedMessages
    /\ nextId = 3
    /\ cm = [p \in Procs |-> IdleCall]
    /\ room_members = InitMembers
    /\ message_receipts = <<>>
    /\ rd = [q \in Readers |-> IdleReader]
    /\ seenMark = [k \in Rooms \X Users |-> <<>>]
    /\ lastWrite = <<>>
    /\ message_reactions = [t \in DOMAIN NoReactions |-> IF t \in HeldAtStart THEN 1 ELSE 0]
    /\ tg = [p \in Togglers |-> IdleToggle]
    /\ InitWs
    /\ InitRooms

(* Every request toggles once, any user's label on message 2, and the      *)
(* requests run concurrently.                                              *)
NextFlip ==
    \/ \E p \in Togglers, u \in Users, l \in Labels :
          tg[p].triple = IdleToggle.triple /\ ToggleReaction(p, 2, u, l)
    \/ \E p \in Togglers : ToggleDelete(p)

SpecFlip == InitFlip /\ [][NextFlip]_vars

(* Toggles and removals on message 2, one request at a time, with labels   *)
(* that differ by case only among them, and one reaction on message 1;     *)
(* the summaries are read in every state.                                  *)
InitSummary ==
    /\ clock = 1
    /\ messages = SeedMessages
    /\ nextId = 3
    /\ cm = [p \in Procs |-> IdleCall]
    /\ room_members = InitMembers
    /\ message_receipts = <<>>
    /\ rd = [q \in Readers |-> IdleReader]
    /\ seenMark = [k \in Rooms \X Users |-> <<>>]
    /\ lastWrite = <<>>
    /\ message_reactions = [t \in ReactionRows |-> 0]
    /\ tg = [p \in Togglers |-> IdleToggle]
    /\ InitWs
    /\ InitRooms

NextSummary ==
    \/ \E u \in Users, l \in Reactions : ToggleReaction(1, 2, u, l)
    \/ ToggleReaction(1, 1, 1, "love")
    \/ ToggleDelete(1)
    \/ \E u \in Users, l \in Reactions : RemoveReaction(2, u, l)
    \/ \E u \in Users : RemoveAllReactionsByUser(2, u)

SpecSummary == InitSummary /\ [][NextSummary]_vars

----------------------------------------------------------------------------
(* Specification of the registry and the dispatcher: connections of user 1 *)
(* come and go while dispatch goroutines send envelopes to user 1, who may *)
(* have several connections, or to user 2, who has none.                   *)

wsSendToUser(d, userID) == wsSendToUsers(d, <<userID>>)

DispatchStep(d) ==
    \/ SendToUsersLoop(d)
    \/ SendToUserSnapshot(d)
    \/ SendToUserEnqueue(d)

NextWs ==
    \/ \E c \in Conns : handleWebSocket(c, 1)
    \/ \E c \in Conns : PeerClose(c)
    \/ \E c \in Conns : WriterReceive(c)
    \/ \E c \in Conns : WriterChannelClosed(c)
    \/ \E c \in Conns : WriterPing(c)
    \/ \E c \in Conns : WriterWrite(c)
    \/ \E c \in Conns : ReaderExit(c)
    \/ \E c \in Conns : ReaderCloseSendCh(c)
    \/ \E d \in Dispatchers, u \in Users : wsSendToUser(d, u)
    \/ \E d \in Dispatchers : DispatchStep(d)

SpecWs == InitStore /\ [][NextWs]_vars

(* Dispatches to the user who holds the connections, between two ticks of  *)
(* the ping timers. The dispatch goroutines are scheduled; nothing is      *)
(* assumed about the writers, the readers or the peers, which may stop     *)
(* for ever.                                                               *)
NextWsLive ==
    \/ \E c \in Conns : handleWebSocket(c, 1)
    \/ \E c \in Conns : PeerClose(c)
    \/ \E c \in Conns : WriterReceive(c)
    \/ \E c \in Conns : WriterChannelClosed(c)
    \/ \E c \in Conns : WriterWrite(c)
    \/ \E c \in Conns : ReaderExit(c)
    \/ \E c \in Conns : ReaderCloseSendCh(c)
    \/ \E d \in Dispatchers : wsSendToUser(d, 1)
    \/ \E d \in Dispatchers : DispatchStep(d)

SpecWsLive ==
    InitStore /\ [][NextWsLive]_vars /\ \A d \in Dispatchers : WF_vars(DispatchStep(d))

(* The read loops are scheduled as well: ReadMessage on a closed           *)
(* connection returns its error.                                           *)
SpecWsLife ==
    /\ InitStore /\ [][NextWsLive]_vars
    /\ \A d \in Dispatchers : WF_vars(DispatchStep(d))
    /\ \A c \in Conns : WF_vars(ReaderExit(c))

----------------------------------------------------------------------------
(* Specification of failing sends: concurrent requests in room 1 within    *)
(* one day, with and without a reply id that the foreign key rejects, any  *)
(* of whose steps may fail.                                                *)

SendOrFail(p) ==
    \E replyTo \in {<<>>, <<0>>} : HandleSendMessage(p, 1, 1, "text", replyTo)

NextAbort ==
    \/ \E p \in Procs : SendOrFail(p)
    \/ \E p \in Procs : SpDaySeparator(p)
    \/ \E p \in Procs : SpInsertMessage(p)
    \/ \E p \in Procs : CommitMessage(p)
    \/ \E p \in Procs : AbortMessage(p)

SpecAbort == InitStore /\ [][NextAbort]_vars

----------------------------------------------------------------------------
(* Specification of one send-message request from its membership check to  *)
(* the end of its fan-out, with connections of both users coming and       *)
(* going; any step of the create and any lookup of the fan-out may fail.   *)

SendOnce ==
    /\ cm[1].result = "none" /\ rq[1].status = 0
    /\ \E replyTo \in {<<>>, <<0>>, <<MaxId>>} : HandleSendMessage(1, 1, 1, "text", replyTo)

NextSend ==
    \/ SendOnce
    \/ SpDaySeparator(1)
    \/ SpInsertMessage(1)
    \/ CommitMessage(1)
    \/ AbortMessage(1)
    \/ Respond(1)
    \/ \E found \in BOOLEAN : FanoutMembers(1, found)
    \/ \E found \in BOOLEAN : FanoutRecipients(1, found)
    \/ \E d \in Dispatchers : DispatchStep(d)
    \/ \E c \in Conns, u \in Users : handleWebSocket(c, u)
    \/ \E c \in Conns : PeerClose(c)
    \/ \E c \in Conns : WriterReceive(c)
    \/ \E c \in Conns : WriterWrite(c)
    \/ \E c \in Conns : ReaderExit(c)
    \/ \E c \in Conns : ReaderCloseSendCh(c)

SpecSend == InitStore /\ [][NextSend]_vars

----------------------------------------------------------------------------
(* Specification of send-message requests racing with the removal of the   *)
(* sender from the room.                                                   *)

SendAsMember(p) ==
    \E roomID \in Rooms, userID \in Users : HandleSendMessage(p, roomID, userID, "text", <<>>)

NextLeave ==
    \/ Tick
    \/ \E p \in Procs : SendAsMember(p)
    \/ \E p \in Procs : SpDaySeparator(p)
    \/ \E p \in Procs : SpInsertMessage(p)
    \/ \E p \in Procs : CommitMessage(p)
    \/ \E roomID \in Rooms, userID \in Users :
         IsUserInRoom(roomID, userID) /\ DeleteUserGroup(roomID, userID)

SpecLeave == InitStore /\ [][NextLeave]_vars

----------------------------------------------------------------------------
(* Specification of create-direct-room requests between the two users,     *)
(* from either side, each request at any position of its handler.          *)

NextDirect ==
    \/ \E p \in Creators, a \in Users, b \in Users : handleCreateDirectRoom(p, a, b)
    \/ \E p \in Creators : CreateRoom(p)
    \/ \E p \in Creators : AddMemberCurrent(p)
    \/ \E p \in Creators : AddMemberTarget(p)

SpecDirect == InitStore /\ [][NextDirect]_vars

----------------------------------------------------------------------------
(* Specification of the realtime stream of user 2: connections of user 2,  *)
(* a message of user 1 in room 1 with its fan-out, and the owner removing  *)
(* user 2 from room 1.                                                     *)

SendToRoom ==
    /\ cm[1].result = "none" /\ rq[1].status = 0
    /\ HandleSendMessage(1, 1, 1, "text", <<>>)

NextKick ==
    \/ SendToRoom
    \/ SpDaySeparator(1)
    \/ SpInsertMessage(1)
    \/ CommitMessage(1)
    \/ Respond(1)
    \/ FanoutMembers(1, TRUE)
    \/ FanoutRecipients(1, TRUE)
    \/ IsUserInRoom(1, 2) /\ handleDeleteUserGroup(1, 1, 2)
    \/ \E d \in Dispatchers : DispatchStep(d)
    \/ \E c \in Conns : handleWebSocket(c, 2)
    \/ \E c \in Conns : WriterReceive(c)
    \/ \E c \in Conns : WriterWrite(c)

SpecKick == InitStore /\ [][NextKick]_vars

----------------------------------------------------------------------------
(* Specification of the unread counters: both users send text and system   *)
(* messages in both rooms while user 1 marks rooms as read.                *)

SendAny ==
    \E roomID \in Rooms, userID \in Users, msgType \in {"text", "system"} :
        HandleSendMessage(1, roomID, userID, msgType, <<>>)

NextUnread ==
    \/ Tick
    \/ SendAny
    \/ SpDaySeparator(1)
    \/ SpInsertMessage(1)
    \/ CommitMessage(1)
    \/ \E roomID \in Rooms : HandleMarkRoomAsRead(1, 1, roomID)
    \/ MarkRoomAsRead(1)

SpecUnread == InitStore /\ [][NextUnread]_vars

----------------------------------------------------------------------------
(* Specification of wsSendToUsers on lists that name a user several times, *)
(* as handleAddUserToRoom builds them (the members, then the caller and    *)
(* the added users again), with two connections of user 1.                 *)

DuplicateLists == {<<1, 1>>, <<1, 2, 1>>, <<2, 1, 2, 1>>}

NextMany ==
    \/ \E c \in Conns : handleWebSocket(c, 1)
    \/ \E c \in Conns : PeerClose(c)
    \/ \E c \in Conns : WriterReceive(c)
    \/ \E c \in Conns : WriterChannelClosed(c)
    \/ \E c \in Conns : WriterWrite(c)
    \/ \E c \in Conns : ReaderExit(c)
    \/ \E c \in Conns : ReaderCloseSendCh(c)
    \/ \E userIDs \in DuplicateLists : wsSendToUsers(1, userIDs)
    \/ DispatchStep(1)

SpecMany == InitStore /\ [][NextMany]_vars

----------------------------------------------------------------------------
(* Specification of one successful send-message request whose context may  *)
(* be cancelled after the response; the database answers every query it    *)
(* is asked, so a lookup fails only by the context.                        *)

NextCancel ==
    \/ cm[1].result = "none" /\ rq[1].status = 0 /\ HandleSendMessage(1, 1, 1, "text", <<>>)
    \/ SpDaySeparator(1)
    \/ SpInsertMessage(1)
    \/ CommitMessage(1)
    \/ Respond(1)
    \/ CancelContext(1)
    \/ FanoutMembers(1, TRUE)
    \/ FanoutRecipients(1, ContextAlive(rq[1]))
    \/ \E d \in Dispatchers : DispatchStep(d)
    \/ \E c \in Conns, u \in Users : handleWebSocket(c, u)
    \/ \E c \in Conns : WriterReceive(c)
    \/ \E c \in Conns : WriterWrite(c)

SpecCancel == InitStore /\ [][NextCancel]_vars

----------------------------------------------------------------------------
(* Specification of two send-message requests to room 1, the second        *)
(* submitted after the first was answered, with the connections of the     *)
(* room's members. Dispatch goroutine p carries the message_created        *)
(* envelope of request p; the unread lookup of the fan-out is let fail, so *)
(* that message_created envelopes are the only ones sent.                  *)

NextOrder ==
    \/ cm[1].result = "none" /\ rq[1].status = 0 /\ HandleSendMessage(1, 1, 1, "text", <<>>)
    \/ /\ rq[1].status = 200
       /\ cm[2].result = "none" /\ rq[2].status = 0
       /\ \E u \in Users : HandleSendMessage(2, 1, u, "text", <<>>)
    \/ \E p \in Procs : SpDaySeparator(p)
    \/ \E p \in Procs : SpInsertMessage(p)
    \/ \E p \in Procs : CommitMessage(p)
    \/ \E p \in Procs : Respond(p)
    \/ \E p \in Procs : FanoutMembers(p, TRUE) /\ ds'[p].pc = "users"
    \/ \E p \in Procs : FanoutRecipients(p, FALSE)
    \/ \E d \in Dispatchers : DispatchStep(d)
    \/ \E c \in Conns, u \in Users : handleWebSocket(c, u)
    \/ \E c \in Conns : WriterReceive(c)
    \/ \E c \in Conns : WriterWrite(c)

SpecOrder == InitStore /\ [][NextOrder]_vars

----------------------------------------------------------------------------
(* Specification of the reaction requests of user 1 and the mark-seen      *)
(* requests of user 2 on the seeded store, with their broadcasts and one   *)
(* connection of user 2; the database answers every query.                 *)

NextBroadcast ==
    \/ \E l \in Labels : handleToggleReaction(1, 2, 1, l)
    \/ handleToggleReactionDelete(1)
    \/ \E l \in Labels \cup {""} : handleRemoveReaction(2, 1, l)
    \/ handleMarkRoomSeenUpTo(2, 1, 2, clock)
    \/ \E d \in Dispatchers : DispatchStep(d)
    \/ handleWebSocket(1, 2)
    \/ WriterReceive(1)
    \/ WriterWrite(1)

SpecBroadcast == InitReact /\ [][NextBroadcast]_vars

----------------------------------------------------------------------------
(* Specification of the reaction requests of both users on message 2 of    *)
(* room 1 while the room's owner, user 1, may remove user 2 from the room; *)
(* user 1 has one connection.                                              *)

NextOutsider ==
    \/ handleDeleteUserGroup(1, 1, 2)
    \/ \E u \in Users : handleToggleReaction(1, 2, u, "like")
    \/ handleToggleReactionDelete(1)
    \/ \E l \in Labels \cup {""} : handleRemoveReaction(2, 2, l)
    \/ \E d \in Dispatchers : DispatchStep(d)
    \/ handleWebSocket(1, 1)

SpecOutsider == InitReact /\ [][NextOutsider]_vars

----------------------------------------------------------------------------
(* Properties *)

Days == 0..DateOf(MaxClock)

Finished(p) == cm[p].pc = "idle" /\ cm[p].result # "none"

(* C1: for each room and calendar day the store holds at most one          *)
(* day-separator message, however the concurrent CreateMessage             *)
(* transactions interleave.                                                *)
C1_AtMostOneDaySeparator ==
    \A roomID \in Rooms, day \in Days :
        Cardinality({m \in messages : IsDaySeparator(m, roomID, day)}) <= 1

SeenCursor(receipts, key) == GetRoomLastSeenMessageID(receipts, key[1], key[2])[1]

C3_UnreadZeroAfterMarkSeen ==
    \A key \in DOMAIN room_members :
        (/\ seenMark[key] # <<>>
         /\ seenMark[key][1] = NewestID(FirstPage(key[1], 1)))
        => GetUnreadCount(room_members, key[1], key[2]) = 0

(* C4: the mark-seen of POST /rooms/seen sets the membership's             *)
(* last_seen_message_id to max(current, k) and its last_seen_at to         *)
(* max(current, now).                                                      *)
C4_MarkSeenUpdatesMembership ==
    [][\A key \in DOMAIN room_members :
         (seenMark'[key] # <<>> /\ lastWrite' # lastWrite)
         => /\ room_members'[key].last_seen_message_id =
                 SeenIdGreatest(room_members[key].last_seen_message_id, seenMark'[key][1])
            /\ room_members'[key].last_seen_at =
                 <<Max2(Coalesce(room_members[key].last_seen_at, 0), seenMark'[key][2])>>
      ]_vars

(* C5: no step lowers a membership's last_seen_at. *)
C5_LastSeenAtMonotonic ==
    [][\A key \in DOMAIN room_members :
         /\ key \in DOMAIN room_members'
         /\ Coalesce(room_members'[key].last_seen_at, 0)
              >= Coalesce(room_members[key].last_seen_at, 0)
      ]_vars

(* The receipts a statement writes: one key, or the targets of a bulk mark *)
WrittenKeys(w) ==
    IF w.op = "MarkRoomSeenUpTo"
    THEN {<<m.id, w.user_id>> : m \in SeenTargets(w.room_id, w.user_id, w.message_id)}
    ELSE {<<w.message_id, w.user_id>>}

NoDowngrade(old, new) == old.status = "seen" => new.status = "seen"

(* C6 as stated: every write of a stored receipt keeps a seen status and   *)
(* leaves seen_at at the maximum of the stored and the incoming timestamp. *)
C6_EveryWriteTakesMaximum ==
    [][lastWrite' # lastWrite =>
         \A k \in WrittenKeys(lastWrite'[1]) \cap DOMAIN message_receipts :
            /\ NoDowngrade(message_receipts[k], message_receipts'[k])
            /\ message_receipts'[k].seen_at =
                 Max2(message_receipts[k].seen_at, lastWrite'[1].now)
      ]_vars

(* C6 amended: no write sets a seen receipt back to delivered or moves     *)
(* seen_at backward; SetSeen and MarkRoomSeenUpTo leave seen_at at the     *)
(* maximum of the stored and the incoming timestamp, and so does           *)
(* SetDelivered on a delivered receipt, while SetDelivered on a seen       *)
(* receipt leaves seen_at as stored.                                       *)
C6_ReceiptMonotonic ==
    [][/\ \A k \in DOMAIN message_receipts :
            /\ k \in DOMAIN message_receipts'
            /\ NoDowngrade(message_receipts[k], message_receipts'[k])
            /\ message_receipts'[k].seen_at >= message_receipts[k].seen_at
       /\ lastWrite' # lastWrite =>
            \A k \in WrittenKeys(lastWrite'[1]) \cap DOMAIN message_receipts :
               message_receipts'[k].seen_at =
                 IF lastWrite'[1].op = "SetDelivered" /\ message_receipts[k].status = "seen"
                 THEN message_receipts[k].seen_at
                 ELSE Max2(message_receipts[k].seen_at, lastWrite'[1].now)
      ]_vars

(* C6 witness: SetDelivered has just reached a seen receipt with a later   *)
(* timestamp than the stored one.                                          *)
C6_DeliveredAfterSeen ==
    /\ lastWrite # <<>>
    /\ lastWrite[1].op = "SetDelivered"
    /\ LET k == <<lastWrite[1].message_id, lastWrite[1].user_id>>
       IN  /\ k \in DOMAIN message_receipts
           /\ message_receipts[k].status = "seen"
           /\ message_receipts[k].seen_at < lastWrite[1].now

OthersHolding(rows, triple) ==
    {u \in Users \ {triple[2]} : rows[<<triple[1], u, triple[3]>>] > 0}

(* C7: two ToggleReaction calls in sequence on the same (message, user,    *)
(* label) of an existing message leave the table as it was before the      *)
(* first; from an absent reaction the first returns added = true, the      *)
(* second added = false, and the user no longer counts for the label.      *)
C7_ToggleTwiceRestores ==
    \A p \in Togglers :
        (/\ tg[p].pc = "idle"
         /\ tg[p].added # <<>>
         /\ tg[p].snap # <<>>
         /\ tg[p].prev # <<>>
         /\ tg[p].prev[1].triple = tg[p].triple
         /\ ReactionForeignKeysOk(tg[p].triple))
        => LET first == tg[p].prev[1]
               t == tg[p].triple
           IN  /\ message_reactions = first.snap
               /\ first.snap[t] = 0 =>
                    /\ first.added = TRUE
                    /\ tg[p].added[1] = FALSE
                    /\ message_reactions[t] = 0
                    /\ ReactionCount(message_reactions, t[1], t[3])
                         = Cardinality(OthersHolding(message_reactions, t))

(* C7 witness: a second toggle of an initially absent reaction returned. *)
C7_ToggledTwice ==
    \E p \in Togglers :
        /\ tg[p].pc = "idle"
        /\ tg[p].added = <<FALSE>>
        /\ tg[p].prev # <<>>
        /\ tg[p].prev[1].triple = tg[p].triple
        /\ tg[p].prev[1].snap[tg[p].triple] = 0
        /\ tg[p].prev[1].added = TRUE
        /\ ReactionForeignKeysOk(tg[p].triple)

(* C8: message_reactions never holds more than one row for a (message,     *)
(* user, label), so once the concurrent toggles have returned the          *)
(* reaction is present once or absent.                                     *)
C8_NoDuplicateReaction ==
    \A t \in Triples : message_reactions[t] <= 1

(* C8 witness: two toggles of one triple are in flight together, both      *)
(* past an ignored insert.                                                 *)
C8_ConcurrentToggles ==
    \E p, q \in Togglers :
        /\ p # q
        /\ tg[p].pc = "delete" /\ tg[q].pc = "delete"
        /\ tg[p].triple = tg[q].triple

InOtherRoom(replyToID, roomID) ==
    \E m \in messages : m.id = replyToID /\ m.room_id # roomID

AllRows == messages \cup UNION {cm[p].tx : p \in Procs}

(* C9: a CreateMessage whose replyTo names a message of a different room   *)
(* ends with InvalidReplyTarget and no inserted row, and no row, committed *)
(* or pending, replies to a message of another room.                       *)
C9_CrossRoomReplyRejected ==
    /\ \A p \in Procs :
         (/\ cm[p].msg.reply_to # <<>>
          /\ InOtherRoom(cm[p].msg.reply_to[1], cm[p].msg.room_id))
         => /\ cm[p].pc = "idle"
            /\ cm[p].result = "InvalidReplyTarget"
            /\ cm[p].id = 0
            /\ cm[p].tx = {}
    /\ \A m \in AllRows :
         m.reply_to # <<>> => ~InOtherRoom(m.reply_to[1], m.room_id)

(* C9 witness: a reply to a message of the other room was rejected. *)
C9_CrossRoomReplyTried ==
    \E p \in Procs :
        /\ cm[p].result = "InvalidReplyTarget"
        /\ cm[p].msg.reply_to # <<>>
        /\ InOtherRoom(cm[p].msg.reply_to[1], cm[p].msg.room_id)

(* C10: a finished CreateMessage whose replyTo is set and names no message *)
(* of the room (an unknown, zero or negative id) has failed with           *)
(* InvalidReplyTarget and inserted no row.                                 *)
C10_MissingReplyTargetRejected ==
    \A p \in Procs :
        (/\ Finished(p)
         /\ cm[p].msg.reply_to # <<>>
         /\ ~fetchReplyInfo(cm[p].msg.room_id, cm[p].msg.reply_to[1]))
        => /\ cm[p].result = "InvalidReplyTarget"
           /\ cm[p].id = 0

(* The store reactions are toggled on is one the pipeline produces. *)
SeedStoreReached == messages = SeedMessages /\ nextId = 3

(* C11: a CreateMessage call that ends with an error leaves the rows of    *)
(* messages as they were and keeps nothing of its transaction; rows enter  *)
(* the store only when a call commits, the separator and the message of    *)
(* its transaction together.                                               *)
C11_FailedCreateLeavesStore ==
    [][/\ \A p \in Procs :
            (cm[p].pc # "idle" /\ cm'[p].pc = "idle" /\ cm'[p].result # "ok")
            => /\ messages' = messages
               /\ cm'[p].tx = {}
               /\ cm'[p].id = 0
       /\ messages' # messages =>
            \E p \in Procs :
               /\ cm[p].pc = "commit"
               /\ cm'[p].result = "ok"
               /\ messages' = messages \cup cm[p].tx
               /\ \E m \in cm[p].tx : m.id = cm[p].id /\ m.message_type # "system"
      ]_vars

(* C11 witness: a call has failed after its procedure inserted rows: ids   *)
(* were handed out, and no row is stored or pending.                       *)
C11_FailedAfterSeparator ==
    /\ \E p \in Procs : cm[p].pc = "idle" /\ cm[p].result = "StorageError"
    /\ \A p \in Procs : cm[p].tx = {}
    /\ nextId > 1
    /\ messages = {}

(* C12: the response of a send-message request is written once, from the   *)
(* outcome of CreateMessage alone (200 with the id of a stored message     *)
(* exactly when the create committed); the fan-out starts only after the   *)
(* response, and no step of it (a failed lookup, a user without            *)
(* connection, a full queue, an eviction) changes the response or the      *)
(* stored rows.                                                            *)
C12_ResponseFixedByCommit ==
    [][\A p \in Procs :
         /\ rq'[p].status # 0 =>
              /\ rq'[p].status = ResponseStatus(cm'[p].result)
              /\ rq'[p].status = 200 <=> (\E m \in messages' : m.id = rq'[p].id)
              /\ rq[p].status # 0 => rq'[p].status = rq[p].status /\ rq'[p].id = rq[p].id
         /\ (rq[p].pc # "idle" \/ ds' # ds \/ wsClient' # wsClient)
              => messages' = messages /\ cm' = cm
         /\ ds' # ds /\ (\E d \in Dispatchers : ds[d].pc = "idle" /\ ds'[d].pc # "idle")
              => rq[1].status = 200
      ]_vars

(* C12 witness: the request was answered 200 with the id of its stored     *)
(* message, one dispatch of its fan-out found a user without connection    *)
(* and the other closed a connection whose queue was full.                 *)
C12_FanoutWentWrong ==
    /\ rq[1].status = 200
    /\ rq[1].pc = "idle"
    /\ \E m \in messages : m.id = rq[1].id /\ m.message_type = "text"
    /\ \E d \in Dispatchers : ds[d].closed # {}
    /\ wsByUser[1] = {}
    /\ \A d \in Dispatchers : ds[d].result = "done"

(* C13: every message committed through send-message has a sender who is  *)
(* a member of the room at the moment of the commit, also when the         *)
(* removal of that member runs concurrently. Refuted: the membership is    *)
(* checked once, before the transaction starts, and nothing ties the       *)
(* insert to room_members.                                                 *)
C13_SenderIsMemberAtCommit ==
    [][\A p \in Procs :
         (cm[p].pc = "commit" /\ cm'[p].pc = "idle" /\ cm'[p].result = "ok")
            => IsUserInRoom(cm[p].msg.room_id, cm[p].msg.sender_id)
      ]_vars

(* C14: every stored message of type system has the reserved system        *)
(* identity as its sender, including the messages created by requests      *)
(* whose message_type is system. Refuted: the handler accepts the type     *)
(* system and stores it with the requesting user as sender.                *)
C14_SystemTypeHasSystemSender ==
    \A m \in messages : m.message_type = "system" => m.sender_id = SystemSenderID

(* C15: system messages are left out of the unread and seen accounting:    *)
(* no unread count (the room list's unread_count included) counts a        *)
(* system message, and MarkRoomSeenUpTo creates no seen receipt for a      *)
(* system message. Refuted on both counts: the room list's subquery has    *)
(* no message_type condition, and the bulk mark filters on the sender      *)
(* only.                                                                   *)
C15_SystemMessagesNotAccounted ==
    /\ \A k \in DOMAIN room_members :
         \A m \in RoomListUnread(room_members, k[1], k[2]) : m.message_type # "system"
    /\ \A k \in ReceiptKeys(message_receipts) :
         message_receipts[k].status = "seen"
            => \A m \in messages : m.id = k[1] => m.message_type # "system"

(* C16: for every membership, GetUnreadCount is the number of non-system   *)
(* messages of the room from other senders created strictly after the      *)
(* membership's last_seen_at (all of them when the room was never seen),   *)
(* and GetUnreadCountsByRooms maps each room of the user to that same      *)
(* number, leaving out exactly the rooms whose number is zero.             *)
C16_UnreadCountersAgree ==
    \A userID \in Users :
        LET byRooms == GetUnreadCountsByRooms(room_members, userID)
            unread(roomID) ==
               {m \in messages :
                  /\ m.room_id = roomID
                  /\ m.message_type # "system"
                  /\ m.sender_id # userID
                  /\ \/ room_members[<<roomID, userID>>].last_seen_at = <<>>
                     \/ m.created_at > room_members[<<roomID, userID>>].last_seen_at[1]}
            joined == {roomID \in Rooms : IsUserInRoom(roomID, userID)}
        IN  /\ \A roomID \in joined :
                 GetUnreadCount(room_members, roomID, userID) = Cardinality(unread(roomID))
            /\ DOMAIN byRooms =
                 {roomID \in joined : GetUnreadCount(room_members, roomID, userID) # 0}
            /\ \A roomID \in DOMAIN byRooms :
                 byRooms[roomID] = GetUnreadCount(room_members, roomID, userID)

(* C16 witness: user 1 has unread messages in room 1 and none in room 2,   *)
(* where a text message of user 2 was already read.                        *)
C16_OneRoomOmitted ==
    /\ DOMAIN GetUnreadCountsByRooms(room_members, 1) = {1}
    /\ room_members[<<2, 1>>].last_seen_at # <<>>
    /\ \E m \in messages : m.room_id = 2 /\ m.message_type = "text" /\ m.sender_id = 2

(* C17: a dispatch to a user without registered connection changes no      *)
(* connection, queue or registry entry and ends without error; a dispatch  *)
(* that visits a live connection whose queue has room appends the          *)
(* envelope to that queue, so that a finished dispatch has handled every   *)
(* connection of its snapshots and each one with room holds the envelope.  *)
C17_DispatchEnqueuesOnEveryLiveQueue ==
    [][\A d \in Dispatchers :
         /\ (ds[d].pc = "snapshot" /\ ds'[d] # ds[d] /\ wsByUser[ds[d].uid] = {})
              => /\ wsClient' = wsClient /\ wsByUser' = wsByUser
                 /\ ds'[d].pc = "users" /\ ds'[d].result = "none"
                 /\ ds'[d].targets = ds[d].targets
         /\ (ds[d].pc = "send" /\ ds'[d] # ds[d] /\ ds'[d].result # "panic")
              => \E c \in ds[d].clients :
                  /\ ds'[d].clients = ds[d].clients \ {c}
                  /\ (~wsClient[c].chClosed /\ Len(wsClient[c].sendCh) < QueueCap)
                       => /\ wsClient'[c].sendCh = Append(wsClient[c].sendCh, ds[d].env)
                          /\ wsClient'[c].conn = wsClient[c].conn
                          /\ ds'[d].sent = ds[d].sent \cup {c}
                          /\ ds'[d].closed = ds[d].closed
         /\ (ds[d].pc # "idle" /\ ds'[d].pc = "idle" /\ ds'[d].result = "done")
              => /\ ds'[d].sent \cup ds'[d].closed = ds'[d].targets
                 /\ ds'[d].sent \cap ds'[d].closed = {}
      ]_vars

(* C17 witness: one dispatch found no connection of the user and ended,    *)
(* another one enqueued its envelope on both connections of the user.      *)
C17_NoneAndBoth ==
    \E d, e \in Dispatchers :
       /\ ds[d].result = "done" /\ ds[d].targets = {}
       /\ ds[e].result = "done" /\ ds[e].sent = Conns /\ ds[e].closed = {}

(* C18: when a dispatch meets a connection whose queue is full, it closes  *)
(* that connection only, leaves every queue as it is, and goes on to the   *)
(* other connections of its snapshot, which are still enqueued on.         *)
C18_EvictionOnlyOfFullQueue ==
    [][\A d \in Dispatchers :
         (ds[d].pc = "send" /\ ds'[d] # ds[d] /\ ds'[d].result # "panic")
            => \E c \in ds[d].clients :
                  /\ ds'[d].clients = ds[d].clients \ {c}
                  /\ \A x \in Conns \ {c} : wsClient'[x] = wsClient[x]
                  /\ (~wsClient[c].chClosed /\ Len(wsClient[c].sendCh) >= QueueCap)
                       => /\ wsClient'[c] = [wsClient[c] EXCEPT !.conn = "closed"]
                          /\ ds'[d].closed = ds[d].closed \cup {c}
                          /\ ds'[d].sent = ds[d].sent
                          /\ ds'[d].pc = IF ds[d].clients = {c} THEN "users" ELSE "send"
                  /\ (c \in ds'[d].closed \ ds[d].closed)
                       => Len(wsClient[c].sendCh) >= QueueCap
      ]_vars

(* C18 witness: a finished dispatch closed the connection whose queue was  *)
(* full and enqueued on the other connection of the user, which is still   *)
(* open.                                                                   *)
C18_OneEvictedOtherServed ==
    \E d \in Dispatchers, c, x \in Conns :
       /\ ds[d].result = "done"
       /\ ds[d].closed = {c} /\ ds[d].sent = {x}
       /\ wsClient[x].conn = "open"
       /\ wsClient[x].sendCh = <<ds[d].env>>

(* C19: a dispatch never waits on a queue: whatever mix of full and        *)
(* non-full queues it meets, and even if no writer ever takes an envelope  *)
(* again, every dispatch that has started returns.                         *)
C19_DispatchAlwaysReturns ==
    \A d \in Dispatchers : (ds[d].pc # "idle") ~> (ds[d].pc = "idle")

(* C19 witness: a dispatch has returned after finding one queue full and   *)
(* one with room, and the envelope that filled the queue is still there.   *)
C19_ReturnedPastFullQueue ==
    \E d \in Dispatchers, c \in Conns :
       /\ ds[d].pc = "idle" /\ ds[d].result = "done"
       /\ ds[d].closed = {c} /\ ds[d].sent # {}
       /\ Len(wsClient[c].sendCh) = QueueCap

(* C20: frames reach a connection only through its own writer loop, of     *)
(* which there is one per connection: a frame is put on the wire only by   *)
(* the step of that connection's writer that is inside WriteMessage, no    *)
(* step of a dispatch writes a frame or moves a writer, and a writer is    *)
(* started with its connection and never a second time, for any            *)
(* interleaving of concurrent dispatches.                                  *)
C20_OnlyTheWriterWrites ==
    [][\A c \in Conns :
         /\ wsClient'[c].wire # wsClient[c].wire
              => /\ wsClient[c].writer = "data" /\ wsClient'[c].writer = "select"
                 /\ wsClient'[c].wire = Append(wsClient[c].wire, wsClient[c].out[1])
                 /\ ds' = ds
                 /\ \A x \in Conns \ {c} : wsClient'[x] = wsClient[x]
         /\ ds' # ds
              => /\ wsClient'[c].wire = wsClient[c].wire
                 /\ wsClient'[c].writer = wsClient[c].writer
                 /\ wsClient'[c].out = wsClient[c].out
         /\ wsClient'[c].writer # wsClient[c].writer /\ wsClient[c].writer \in {"none", "done"}
              => wsClient[c].conn = "none" /\ wsClient'[c].writer = "select"
      ]_vars

(* C20 witness: the envelopes of two concurrent dispatches were both       *)
(* written to the same connection, one after the other, by its writer.     *)
C20_TwoDispatchesOneWriter ==
    \E c \in Conns :
       /\ Len(wsClient[c].wire) = 2
       /\ {wsClient[c].wire[i][1] : i \in 1..2} = {1, 2}

(* The number of times envelope e occurs in a sequence *)
Occurrences(q, e) == Cardinality({i \in DOMAIN q : q[i] = e})

(* Everything that was enqueued on connection c and not lost by a failed   *)
(* write: the frames on the wire, the frame in the writer's hands, the     *)
(* queue.                                                                  *)
Enqueued(c) == wsClient[c].wire \o wsClient[c].out \o wsClient[c].sendCh

(* C21: one wsSendToUsers call enqueues its envelope at most once on each  *)
(* connection, whatever duplicates its list of users contains.             *)
C21_AtMostOncePerConnection ==
    \A d \in Dispatchers, c \in Conns :
       ds[d].n > 0 => Occurrences(Enqueued(c), ds[d].env) <= 1

(* C21 witness: a call whose list named user 1 twice has returned; the     *)
(* first enqueue was already written to the wire, so the queue had room    *)
(* again when the duplicate came up.                                       *)
C21_DuplicateSkipped ==
    \E c \in Conns :
       /\ ds[1].result = "done" /\ ds[1].seen = {1, 2}
       /\ wsClient[c].wire = <<ds[1].env>>
       /\ wsClient[c].sendCh = <<>> /\ wsClient[c].conn = "open"

(* The connections registered under any user *)
Registered == UNION {wsByUser[u] : u \in Users}

(* C22: a connection is in the registry exactly from its upgrade until its *)
(* read loop ends; a closed connection is eventually removed; and a        *)
(* dispatch snapshot taken after the removal does not contain it (a        *)
(* removed connection is never registered again).                          *)
C22_RegistryFollowsReadLoop ==
    /\ [](\A c \in Conns :
            /\ c \in Registered <=> wsClient[c].reader = "read"
            /\ c \in Registered => c \in wsByUser[wsClient[c].userID])
    /\ [][\A c \in Conns :
            /\ (c \in Registered /\ c \notin Registered')
                 => wsClient[c].conn = "closed" /\ wsClient'[c].reader = "cleanup"
            /\ (c \notin Registered /\ c \in Registered') => wsClient[c].conn = "none"
            /\ \A d \in Dispatchers :
                 c \in ds'[d].targets \ ds[d].targets => c \in Registered
         ]_vars
    /\ \A c \in Conns : (wsClient[c].conn = "closed") ~> (c \notin Registered)

(* C22 witness: a connection that received the envelope of one dispatch    *)
(* was closed and has been removed by its read loop; the other dispatch    *)
(* found the registry of the user empty and returned.                      *)
C22_RemovedThenSkipped ==
    \E c \in Conns, d, e \in Dispatchers :
       /\ c \in ds[d].sent
       /\ wsClient[c].conn = "closed" /\ wsClient[c].reader = "done"
       /\ Registered = {}
       /\ ds[e].result = "done" /\ ds[e].targets = {} /\ e # d

(* C23: after a successful create, both the message_created fan-out and    *)
(* the unread updates of the recipients are started by the time the        *)
(* handler returns, also when the request's context was cancelled after    *)
(* the response. Refuted: the recipients are looked up with the request's  *)
(* context, and the handler returns without the unread updates when that   *)
(* lookup fails.                                                           *)
C23_FanoutSurvivesCancel ==
    \A p \in Procs :
       (rq[p].status = 200 /\ rq[p].pc = "idle")
          => rq[p].started = {"message_created", "room_unread_update"}

(* C24: every answered reaction mutation (toggle, removal of one label,    *)
(* removal of all labels of a user) and every answered mark-seen has       *)
(* started a broadcast to the members of the room. Refuted: the handler    *)
(* of the two removals answers and returns without any broadcast.          *)
C24_EveryMutationBroadcasts ==
    \A s \in served : s.spawned

(* C25: GetReactionSummary(message, viewer) returns one item per label    *)
(* held on the message, with the number of users holding that label and   *)
(* whether the viewer holds it, by descending count then ascending label; *)
(* GetReactionSummaryBatch returns the same list for every requested      *)
(* message with reactions and no entry for a message with none.           *)
HeldLabels(messageID) ==
    {l \in Reactions : \E u \in Users : message_reactions[<<messageID, u, l>>] > 0}

Holders(messageID, l) == {u \in Users : message_reactions[<<messageID, u, l>>] > 0}

C25_SummaryPerLabel ==
    \A m \in 1..MaxId, v \in Users :
        /\ GetReactionSummary(message_reactions, m, v) # {}
        /\ \A res \in GetReactionSummary(message_reactions, m, v) :
              /\ Len(res) = Cardinality(HeldLabels(m))
              /\ {res[i].reaction : i \in 1..Len(res)} = HeldLabels(m)
              /\ \A i \in 1..Len(res) :
                    /\ res[i].count = Cardinality(Holders(m, res[i].reaction))
                    /\ res[i].reacted_by_me = (v \in Holders(m, res[i].reaction))
              /\ \A i, j \in 1..Len(res) :
                    i < j => \/ res[i].count > res[j].count
                             \/ /\ res[i].count = res[j].count
                                /\ CollationRank(res[i].reaction) <= CollationRank(res[j].reaction)
        /\ \A b \in GetReactionSummaryBatch(message_reactions, 1..MaxId, v) :
              /\ DOMAIN b = {k \in 1..MaxId : HeldLabels(k) # {}}
              /\ m \in DOMAIN b => b[m] \in GetReactionSummary(message_reactions, m, v)

(* C25 in the states where no two held labels of a message differ by case *)
(* only.                                                                   *)
C25_SummaryPerCollatedLabel ==
    (\A k \in 1..MaxId : \A a, b \in HeldLabels(k) : SameLabel(a, b) => a = b)
        => C25_SummaryPerLabel

(* C26: every envelope that carries a room identity is enqueued only for  *)
(* users who are members of that room when it is dispatched.               *)
C26_OnlyMembersReceive ==
    \A d \in Dispatchers : \A c \in ds[d].sent :
        ds[d].room # 0 => wsClient[c].userID \in ds[d].members

(* C27: after any interleaving of create-direct-room requests between the *)
(* same two users, at most one room of kind direct has both as members.    *)
DirectRoomsOf(a, b) ==
    {r \in rooms : r.type = "direct" /\ IsUserInRoom(r.id, a) /\ IsUserInRoom(r.id, b)}

C27_OneDirectRoomPerPair ==
    (\A p \in Creators : cd[p].pc = "idle")
        => \A a, b \in Users : a # b => Cardinality(DirectRoomsOf(a, b)) <= 1

(* C28: for every room and day, the day separator has a smaller identity   *)
(* than, and a creation timestamp not later than, every non-system message *)
(* of that room and day created through CreateMessage.                     *)
DaySeparators(roomID, day) == {m \in messages : IsDaySeparator(m, roomID, day)}

DayMessages(roomID, day) ==
    {m \in messages : /\ m.room_id = roomID
                      /\ m.message_type # "system"
                      /\ DateOf(m.created_at) = day}

C28_SeparatorBeforeDayMessages ==
    \A roomID \in Rooms, day \in Days :
        \A sep \in DaySeparators(roomID, day), m \in DayMessages(roomID, day) :
            sep.id < m.id /\ sep.created_at <= m.created_at

(* C28 for the separator a call inserted or found: every non-system        *)
(* message has a separator of its room and day before it.                  *)
C28_SomeSeparatorBeforeEachMessage ==
    \A roomID \in Rooms, day \in Days :
        \A m \in DayMessages(roomID, day) :
            \E sep \in DaySeparators(roomID, day) :
                sep.id < m.id /\ sep.created_at <= m.created_at

(* C29: the identity a successful CreateMessage returns is that of the    *)
(* real message row it inserted, with the requested room, sender, content *)
(* and type, never that of the day separator inserted in the same call    *)
(* nor of a row inserted by a concurrent call.                             *)
C29_ReturnsOwnMessageId ==
    \A p \in Procs :
        (cm[p].pc = "idle" /\ cm[p].result = "ok")
            => /\ MessageRow(cm[p].id, cm[p].msg) \in messages
               /\ \A m \in messages :
                     m.id = cm[p].id => m = MessageRow(cm[p].id, cm[p].msg)
               /\ \A q \in Procs \ {p} :
                     (cm[q].pc = "idle" /\ cm[q].result = "ok") => cm[q].id # cm[p].id

(* C29 witness: two concurrent calls returned, each after inserting its    *)
(* own separator just before its message.                                  *)
C29_TwoCallsWithSeparators ==
    \E p \in Procs, q \in Procs :
        /\ p # q
        /\ cm[p].pc = "idle" /\ cm[p].result = "ok"
        /\ cm[q].pc = "idle" /\ cm[q].result = "ok"
        /\ cm[p].id < cm[q].id
        /\ \E sp \in messages, sq \in messages :
              /\ sp.id = cm[p].id - 1 /\ sp.sender_id = SystemSenderID
              /\ sq.id = cm[q].id - 1 /\ sq.sender_id = SystemSenderID

(* C30: MarkRoomSeenUpTo(room, user, k) marks as seen exactly the messages *)
(* from other senders at or before message k in the room's order          *)
(* (creation timestamp, identity), also when concurrent writers gave a    *)
(* higher identity to a message with an earlier timestamp.                 *)
AtOrBefore(m, k) ==
    \/ m.created_at < k.created_at
    \/ m.created_at = k.created_at /\ m.id <= k.id

C30_MarksPrefixOfRoomOrder ==
    [][\A k \in messages :
          (/\ lastWrite' # lastWrite
           /\ lastWrite'[1].op = "MarkRoomSeenUpTo"
           /\ lastWrite'[1].message_id = k.id
           /\ lastWrite'[1].room_id = k.room_id)
          => LET w == lastWrite'[1]
                 prefix == {m \in messages : /\ m.room_id = w.room_id
                                              /\ m.sender_id # w.user_id
                                              /\ AtOrBefore(m, k)}
             IN  SeenReceiptKeys(message_receipts', w.room_id, w.user_id)
                   = SeenReceiptKeys(message_receipts, w.room_id, w.user_id)
                       \cup {<<m.id, w.user_id>> : m \in prefix}]_vars

(* C30 where identities follow the timestamps of the room's messages *)
C30_MarksPrefixWithoutSkew ==
    [][(\A a, b \in messages : a.id < b.id => a.created_at <= b.created_at)
          => \A k \in messages :
               (/\ lastWrite' # lastWrite
                /\ lastWrite'[1].op = "MarkRoomSeenUpTo"
                /\ lastWrite'[1].message_id = k.id
                /\ lastWrite'[1].room_id = k.room_id)
               => SeenReceiptKeys(message_receipts', k.room_id, lastWrite'[1].user_id)
                    = SeenReceiptKeys(message_receipts, k.room_id, lastWrite'[1].user_id)
                        \cup {<<m.id, lastWrite'[1].user_id>> :
                                 m \in {x \in messages : /\ x.room_id = k.room_id
                                                          /\ x.sender_id # lastWrite'[1].user_id
                                                          /\ AtOrBefore(x, k)}}]_vars

(* C31: paging backwards through a room with GetRoomMessages, each time   *)
(* with the oldest returned message's (created_at, id) as the cursor,      *)
(* returns every message of the room exactly once when nothing is inserted *)
(* during the traversal, and each page is in ascending (created_at, id)    *)
(* order.                                                                  *)
RECURSIVE Flatten(_)
Flatten(pages) == IF pages = <<>> THEN <<>> ELSE Head(pages) \o Flatten(Tail(pages))

MessageById(id) == CHOOSE m \in messages : m.id = id

C31_TraversalReturnsEachOnce ==
    LET all == Flatten(pg.pages)
    IN  /\ \A i, j \in 1..Len(all) : i # j => all[i] # all[j]
        /\ \A k \in 1..Len(pg.pages) :
              \A i, j \in 1..Len(pg.pages[k]) :
                 i < j => Later(MessageById(pg.pages[k][j]), MessageById(pg.pages[k][i]))
        /\ pg.pc = "done" =>
              {all[i] : i \in 1..Len(all)} = {m.id : m \in {x \in messages : x.room_id = 1}}

(* C31 witness: a finished traversal of several pages over messages that   *)
(* share a timestamp, one of them with a lower id and a later timestamp    *)
(* than another.                                                           *)
C31_TraversedTiesAndSkew ==
    /\ pg.pc = "done"
    /\ Len(pg.pages) > 2
    /\ \E a \in messages, b \in messages : a.id # b.id /\ a.created_at = b.created_at
    /\ \E a \in messages, b \in messages : a.id < b.id /\ a.created_at > b.created_at

OnlyLabelChanges(triple) ==
    \A t \in DOMAIN message_reactions :
        t # triple => message_reactions'[t] = message_reactions[t]

OnlyUserOnMessageChanges(messageID, userID) ==
    \A t \in DOMAIN message_reactions :
        (t[1] # messageID \/ t[2] # userID) => message_reactions'[t] = message_reactions[t]

C33_OnlyOwnLabelChanges ==
    [][/\ \A p \in Togglers, t \in DOMAIN message_reactions :
            ToggleReaction(p, t[1], t[2], t[3]) => OnlyLabelChanges(t)
       /\ \A p \in Togglers :
            ToggleDelete(p) => OnlyLabelChanges(tg[p].triple)
       /\ \A t \in DOMAIN message_reactions :
            RemoveReaction(t[1], t[2], t[3])
               => /\ OnlyLabelChanges(t)
                  /\ message_reactions[t] = 0 => message_reactions' = message_reactions
       /\ \A m \in 1..MaxId, u \in Users :
            RemoveAllReactionsByUser(m, u) => OnlyUserOnMessageChanges(m, u)
      ]_vars

(* C34: no dispatch attempts to enqueue on a connection's queue after the  *)
(* disconnect cleanup closed it, under any interleaving of wsSendToUser    *)
(* with the disconnect: no goroutine's send into sendCh finds the channel  *)
(* closed (a send on a closed channel panics).                             *)
C34_NoEnqueueAfterClose ==
    \A d \in Dispatchers : ds[d].result # "panic"

Returned(t) == {p \in Togglers : tg[p].triple = t /\ tg[p].pc = "idle"}

InFlight(t) == {p \in Togglers : tg[p].triple = t /\ tg[p].pc # "idle"}

Odd(k) == k % 2 = 1

(* C35: when k concurrent ToggleReaction calls on one (message, user,      *)
(* label) have all returned and nothing else touched the triple, the row   *)
(* is present exactly when (present at the start) differs from (k odd).    *)
C35_EachToggleFlipsOnce ==
    \A t \in DOMAIN message_reactions :
        InFlight(t) = {}
        => (message_reactions[t] > 0) = ((t \in HeldAtStart) # Odd(Cardinality(Returned(t))))

(* C37: every non-system message in the store has a day separator for its *)
(* room and calendar day, whichever creation path inserted it:             *)
(* CreateMessage, CreateMessageWithAttachments or CreateImageMessage.      *)
C37_EveryMessageHasDaySeparator ==
    \A m \in messages :
        m.message_type # "system" => DaySepExists(messages, m.room_id, DateOf(m.created_at))

(* C37 for the path through the procedure alone. *)
C37_ProcedureMessagesHaveDaySeparator ==
    \A m \in messages :
        m.message_type = "text" => DaySepExists(messages, m.room_id, DateOf(m.created_at))

(* C36: for two messages of one room where the first create request was   *)
(* answered before the second was submitted, every connection that         *)
(* receives both message_created envelopes has the first one enqueued      *)
(* before the second.                                                      *)
C36_CreatedEnvelopesInMessageOrder ==
    \A c \in Conns :
        LET enq == wsClient[c].log
        IN  \A i, j \in DOMAIN enq :
               (enq[i] = <<1, 1>> /\ enq[j] = <<2, 1>>) => i < j

(* The default limit of handleListSeenUsersByMessage *)
SeenLimit == 50

(* C38: the seen-by list served for a message, with a limit at least the   *)
(* number of its receipts, contains exactly the users counted by seenCount *)
(* of the seen summary: both leave out the sender and nobody else.         *)
C38_SeenListMatchesSeenCount ==
    \A viewer \in Users, m \in messages :
        LET sum == handleGetMessageSeenSummary(viewer, m.id)
            counted == SeenUsersExcept(message_receipts, m.id, 0) \ {m.sender_id}
        IN  sum.status = 200 =>
              /\ sum.body.seenCount = Cardinality(counted)
              /\ \A resp \in handleListSeenUsersByMessage(viewer, m.id, SeenLimit) :
                    resp.status = 200 /\ resp.users = counted

(* C38 for the request of the message's sender. *)
C38_SeenListOfSenderMatchesSeenCount ==
    \A m \in messages :
        LET sum == handleGetMessageSeenSummary(m.sender_id, m.id)
            counted == SeenUsersExcept(message_receipts, m.id, 0) \ {m.sender_id}
        IN  sum.status = 200 =>
              /\ sum.body.seenCount = Cardinality(counted)
              /\ \A resp \in handleListSeenUsersByMessage(m.sender_id, m.id, SeenLimit) :
                    resp.status = 200 /\ resp.users = counted

(* C39: in every reaction_updated envelope delivered to a user, each       *)
(* label's reacted_by_me equals whether the receiving user holds the       *)
(* label, whoever toggled.                                                 *)
C39_ReactedByMeIsTheReceivers ==
    \A c \in Conns, d \in Dispatchers :
        \A i \in DOMAIN wsClient[c].wire :
            (wsClient[c].wire[i] = ds[d].env /\ ds[d].data # <<>>)
            => LET data == ds[d].data[1]
               IN  \A k \in DOMAIN data.reactions :
                      data.reactions[k].reacted_by_me
                        = (data.reactions[k].reaction \in data.held[wsClient[c].userID])

(* C40: a user who is not a member of a message's room cannot change its   *)
(* reactions: a toggle or remove request of a non-member leaves the        *)
(* message's reaction rows unchanged.                                      *)
C40_NonMemberCannotReact ==
    [][\A t \in DOMAIN message_reactions :
          (/\ \E m \in messages : m.id = t[1]
           /\ ~IsUserInRoom(GetMessageRoomID(t[1]), t[2]))
          => message_reactions'[t] = message_reactions[t]]_vars

====
